---- MODULE Spec2Model ----
(***************************************************************************)
(* Smart-Finance-Manager: the account requests of home/views.py (expense,  *)
(* add amount, target, delete transaction, recurring payments, analytics)  *)
(* and the rule-based insight engine of home/ai_analyzer.py.               *)
(*                                                                         *)
(* Conventions of the model                                                *)
(*  - Money is a Decimal with two places in the code; the model draws      *)
(*    whole currency units (integers), on which Decimal arithmetic and the *)
(*    engine's float arithmetic are exact.  Quotients are kept as exact    *)
(*    fractions [num, den].                                                *)
(*  - A database table is the sequence of its rows in insertion order.     *)
(*    created_at (auto_now_add) grows with insertion, so ordering by       *)
(*    '-created_at' is the reverse of insertion order; the field itself    *)
(*    keeps the calendar day (ordinal day of a non-leap year that starts   *)
(*    on a Monday).                                                        *)
(*  - A text (description, recurring name) is a sequence of characters, so *)
(*    that description__contains is a real substring test.                 *)
(*  - A Python dict is the sequence of its [key, value] entries in         *)
(*    insertion order.                                                     *)
(***************************************************************************)
EXTENDS Integers, Sequences, FiniteSets, TLC

VARIABLES
    total_amount,      \* UserExpenseAccount.total_amount
    current_balance,   \* UserExpenseAccount.current_balance
    target_amount,     \* UserExpenseAccount.target_amount
    transactions,      \* rows of Transaction, insertion order
    recurring,         \* rows of RecurringExpense, every user's, insertion order (id = index)
    next_id,           \* next Transaction primary key
    today,             \* date.today() / datetime.now(), ordinal day of the year
    response,          \* what the last request did and returned
    other_account,     \* another user's UserExpenseAccount and its transactions
    inflight,          \* requests of the user that are being served at once
    clock,             \* datetime.now(), the time of day in hours
    invocations        \* the calls of the engine so far: arguments, locals, result

vars == <<total_amount, current_balance, target_amount, transactions,
          recurring, next_id, today, response, other_account, inflight,
          clock, invocations>>

\* a datetime: the day and the time of day
Moment(day, time) == [day |-> day, time |-> time]

\* datetime.now() / timezone.now()
Now == Moment(today, clock)

\* a >= b for two datetimes
NotBefore(a, b) == a.day > b.day \/ (a.day = b.day /\ a.time >= b.time)

\* a - timedelta(days=n)
DaysBefore(a, n) == Moment(a.day - n, a.time)

account == [total_amount |-> total_amount,
            current_balance |-> current_balance,
            target_amount |-> target_amount]

(***************************************************************************)
(* Program constants                                                       *)
(***************************************************************************)
CATEGORY_CHOICES ==
    {"Food", "Transport", "Shopping", "Bills", "Entertainment", "Health",
     "Education", "Other"}

SampleFloor == 5          \* detect_anomalies: expenses.count() < 5
AnomalyWindow == 10       \* detect_anomalies: expenses[:10]
AnomalyFactor == 2        \* detect_anomalies: threshold = avg * 2

(***************************************************************************)
(* Texts                                                                   *)
(***************************************************************************)
AutoPrefix == <<"A", "u", "t", "o", ":", " ">>
ExpenseText == <<"E", "x", "p", "e", "n", "s", "e">>
AmountAddedText == <<"A", "m", "o", "u", "n", "t", " ", "A", "d", "d", "e", "d">>
NetText == <<"N", "e", "t">>
NetflixText == <<"N", "e", "t", "f", "l", "i", "x">>

\* description__contains: sub occurs in s as a contiguous block
Contains(s, sub) ==
    \E i \in 0..(Len(s) - Len(sub)) : SubSeq(s, i + 1, i + Len(sub)) = sub

(***************************************************************************)
(* Sequences, dicts, fractions                                             *)
(***************************************************************************)
Min(a, b) == IF a <= b THEN a ELSE b

\* variant: the last n elements are kept
Take_FromEnd(s, n) ==
    SubSeq(s, Len(s) - Min(n, Len(s)) + 1, Len(s))

Take(s, n) == SubSeq(s, 1, Min(n, Len(s)))

RECURSIVE SumAmounts(_)
SumAmounts(rows) ==
    IF rows = <<>> THEN 0 ELSE Head(rows).amount + SumAmounts(Tail(rows))

Keys(d) == {d[i].key : i \in 1..Len(d)}

Lookup(d, k) == d[CHOOSE i \in 1..Len(d) : d[i].key = k].value

RECURSIVE SumValues(_)
SumValues(d) == IF d = <<>> THEN 0 ELSE Head(d).value + SumValues(Tail(d))

\* defaultdict(Decimal): d[k] += v
DictAdd(d, k, v) ==
    IF k \in Keys(d)
    THEN [i \in 1..Len(d) |->
             IF d[i].key = k THEN [key |-> k, value |-> d[i].value + v] ELSE d[i]]
    ELSE Append(d, [key |-> k, value |-> v])

\* d[k] = v
DictSet(d, k, v) ==
    IF k \in Keys(d)
    THEN [i \in 1..Len(d) |->
             IF d[i].key = k THEN [key |-> k, value |-> v] ELSE d[i]]
    ELSE Append(d, [key |-> k, value |-> v])

\* a / b: raises ZeroDivisionError when b = 0
Divide(a, b) == [raised |-> (b = 0), num |-> a, den |-> b]
Whole(n) == [raised |-> FALSE, num |-> n, den |-> 1]
Times(q, m, d) == [raised |-> q.raised, num |-> q.num * m, den |-> q.den * d]

\* q > n for a fraction q with a positive denominator and a whole number n
Exceeds(q, n) == q.num > n * q.den
AtLeast(q, n) == q.num >= n * q.den
Below(q, n) == q.num < n * q.den

\* format(q, '.0f'): to the nearest whole number, ties to the even one
RoundHalfEven(q) ==
    LET f == q.num \div q.den
        r == q.num - f * q.den
    IN  IF q.raised THEN 0
        ELSE IF 2 * r < q.den THEN f
        ELSE IF 2 * r > q.den THEN f + 1
        ELSE IF f % 2 = 0 THEN f ELSE f + 1

(***************************************************************************)
(* Binary64: (float(x) / float(y)) * 100 rounds twice, to 53 significant   *)
(* bits each time.  A number is a sequence of bits, the most significant   *)
(* first, times a power of two.                                            *)
(***************************************************************************)
Significand == 53
WidestChunk == 24
LargestProduct == 536870912    \* 2^29, so that no step leaves 32 bits

Zeros(n) == [i \in 1..n |-> 0]

\* the number written by bits i..j
RECURSIVE BitsValue(_, _, _)
BitsValue(bits, i, j) ==
    IF j < i THEN 0 ELSE 2 * BitsValue(bits, i, j - 1) + bits[j]

\* n in w bits
FixedBits(n, w) == [i \in 1..w |-> (n \div 2 ^ (w - i)) % 2]

\* how many bits n takes
RECURSIVE BitLength(_)
BitLength(n) == IF n = 0 THEN 0 ELSE 1 + BitLength(n \div 2)

\* n in as many bits as it takes
ToBits(n) == FixedBits(n, BitLength(n))

\* how many bits are taken at a time when working with m
ChunkWidth(m) ==
    CHOOSE w \in 1..WidestChunk :
        /\ m * 2 ^ w <= LargestProduct
        /\ w = WidestChunk \/ m * 2 ^ (w + 1) > LargestProduct

\* the bits of (the first j bits) * m + carry, w bits at a time: the chunk
\* is bits lo..j, v its product plus the carry
RECURSIVE MulUpTo(_, _, _, _, _)
MulPlace(bits, m, lo, width, v, w) ==
    MulUpTo(bits, m, lo - 1, v \div 2 ^ width, w) \o FixedBits(v % 2 ^ width, width)

MulChunk(bits, m, lo, j, carry, w) ==
    MulPlace(bits, m, lo, j - lo + 1, BitsValue(bits, lo, j) * m + carry, w)

MulUpTo(bits, m, j, carry, w) ==
    IF j <= 0 THEN ToBits(carry)
    ELSE MulChunk(bits, m, IF j - w + 1 < 1 THEN 1 ELSE j - w + 1, j, carry, w)

MulBits(bits, m) == MulUpTo(bits, m, Len(bits), 0, ChunkWidth(m))

\* n / d = (n' / d') * 2^k with 1 <= n' / d' < 2
RECURSIVE Normalise(_, _, _)
Normalise(n, d, k) ==
    IF n >= 2 * d THEN Normalise(n, 2 * d, k + 1)
    ELSE IF n < d THEN Normalise(2 * n, d, k - 1)
    ELSE [n |-> n, d |-> d, k |-> k]

\* the next count bits of r / d after those in done, for r < d, and what
\* is left, w bits at a time: t is r with the next c bits' worth of room
RECURSIVE QuotientUpTo(_, _, _, _, _)
QuotientChunk(t, d, count, c, w, done) ==
    QuotientUpTo(t % d, d, count - c, w, done \o FixedBits(t \div d, c))

QuotientUpTo(r, d, count, w, done) ==
    IF count = 0 THEN [bits |-> done, rem |-> r]
    ELSE QuotientChunk(r * 2 ^ Min(w, count), d, count, Min(w, count), w, done)

QuotientBits(r, d, count) == QuotientUpTo(r, d, count, ChunkWidth(d), <<>>)

\* the bits plus one: the ones at the end become zeros, the zero before
\* them, at last, a one; last = 0 when there is no zero
IncrementAt(bits, last) ==
    IF last = 0 THEN <<1>> \o Zeros(Len(bits))
    ELSE [i \in 1..Len(bits) |->
            IF i < last THEN bits[i] ELSE IF i = last THEN 1 ELSE 0]

Largest(S) == CHOOSE i \in S : \A j \in S : j <= i
Smallest(S) == CHOOSE i \in S : \A j \in S : i <= j

Increment(bits) ==
    IncrementAt(bits, Largest({0} \cup {i \in 1..Len(bits) : bits[i] = 0}))

\* round to nearest, ties to even: the first 53 bits of at least 53, and
\* how many bits went; sticky tells that more nonzero bits follow
Carried(next, dropped) ==
    IF Len(next) > Significand
    THEN [bits |-> SubSeq(next, 1, Significand), dropped |-> dropped + 1]
    ELSE [bits |-> next, dropped |-> dropped]

RoundUpIf(up, top, dropped) ==
    IF up THEN Carried(Increment(top), dropped)
    ELSE [bits |-> top, dropped |-> dropped]

RoundToSignificand(bits, sticky) ==
    RoundUpIf(/\ Len(bits) > Significand
              /\ bits[Significand + 1] = 1
              /\ \/ sticky
                 \/ bits[Significand] = 1
                 \/ \E i \in Significand + 2..Len(bits) : bits[i] = 1,
              SubSeq(bits, 1, Significand), Len(bits) - Significand)

\* 1, 0 or -1 as x is above, equal to or below y; no leading zeros; the
\* two differ first at i, or nowhere when i is past the end
CompareAt(x, y, i) ==
    IF i > Len(x) THEN 0 ELSE IF x[i] > y[i] THEN 1 ELSE -1

CompareBits(x, y) ==
    IF Len(x) # Len(y) THEN (IF Len(x) > Len(y) THEN 1 ELSE -1)
    ELSE CompareAt(x, y, Smallest({Len(x) + 1}
                                  \cup {i \in 1..Len(x) : x[i] # y[i]}))

\* x * 2^e against y
CompareShifted(x, y, e) ==
    CompareBits(x \o Zeros(IF e > 0 THEN e ELSE 0),
                y \o Zeros(IF e < 0 THEN 0 - e ELSE 0))

\* where the binary64 value of (a / b) * 100 lies, for whole a > 0 and
\* b > 0: 1 above 100a/b, 0 on it, -1 below.  start is a / b normalised,
\* quotient float(a) / float(b), product quotient * 100, each the 53 bits
\* and the bits dropped; product * 2^e is compared with 100a/b as
\* product * b * 2^e with 100a
SideOfProduct(product, e, a, b) ==
    CompareShifted(MulBits(product.bits, b), MulBits(ToBits(a), 100),
                   e + product.dropped)

SideOfQuotient(quotient, k, a, b) ==
    SideOfProduct(RoundToSignificand(MulBits(quotient.bits, 100), FALSE),
                  k - Significand + quotient.dropped, a, b)

RoundedQuotient(q) == RoundToSignificand(<<1>> \o q.bits, q.rem # 0)

SideFrom(start, a, b) ==
    SideOfQuotient(RoundedQuotient(QuotientBits(start.n - start.d, start.d,
                                                Significand)),
                   start.k, a, b)

ProductSide(a, b) == SideFrom(Normalise(a, b, 0), a, b)

\* the same for a percentage q = (a / b) * 100 held as the fraction 100a/b;
\* -a / b is the mirror image of a / b
PercentageSide(q) ==
    IF q.num = 0 THEN 0
    ELSE (IF q.num > 0 THEN 1 ELSE -1)
         * ProductSide((IF q.num > 0 THEN q.num ELSE 0 - q.num) \div 100, q.den)

\* q is an exact half
IsHalf(q) == (2 * q.num) % q.den = 0 /\ ((2 * q.num) \div q.den) % 2 = 1

\* a tie, f and a half, goes where the binary64 value lies, and to the even
\* one of f and f + 1 when the value is the half itself
TieBreak(f, side) ==
    IF side > 0 THEN f + 1
    ELSE IF side < 0 THEN f
    ELSE IF f % 2 = 0 THEN f ELSE f + 1

\* format(value, '.0f') of t, a multiple of the percentage q whose binary64
\* value is formatted: it differs from rounding t only where t is an exact
\* half and the binary64 value is not
RoundFloat(t, q) ==
    IF q.raised THEN 0
    ELSE IF IsHalf(t) THEN TieBreak(t.num \div t.den, PercentageSide(q))
    ELSE RoundHalfEven(t)

(***************************************************************************)
(* Calendar: ordinal day of a non-leap year whose 1 January is a Monday    *)
(***************************************************************************)
MonthLengths == <<31, 28, 31, 30, 31, 30, 31, 31, 30, 31, 30, 31>>

RECURSIVE DayInMonth(_, _)
DayInMonth(d, m) ==
    IF m >= 12 \/ d <= MonthLengths[m] THEN d
    ELSE DayInMonth(d - MonthLengths[m], m + 1)

\* date.day
DayOfMonth(d) == DayInMonth(d, 1)

\* created_at.isocalendar()[1]
\* day 365, a Monday, opens week 1 of the next year
IsoWeek(d) == IF d > 364 THEN 1 ELSE ((d - 1) \div 7) + 1

RECURSIVE MonthIn(_, _)
MonthIn(d, m) ==
    IF m >= 12 \/ d <= MonthLengths[m] THEN m
    ELSE MonthIn(d - MonthLengths[m], m + 1)

\* date.month
MonthOf(d) == MonthIn(d, 1)

\* date(year, m, day) of this year, as an ordinal day
RECURSIVE Ordinal(_, _)
Ordinal(m, day) == IF m = 1 THEN day ELSE MonthLengths[m - 1] + Ordinal(m - 1, day)

\* calendar.monthrange(year, m)[1]
LastDayOf(m) == MonthLengths[m]
YearLength == 365

(***************************************************************************)
(* ai_analyzer.py: prepare_expense_data                                    *)
(***************************************************************************)
\* QuerySet.filter(transaction_type='expense')
FilterExpenses(rows) ==
    SelectSeq(rows, LAMBDA t : t.transaction_type = "expense")

\* row goes before the first row of the newest-first sequence that is older
RECURSIVE InsertByCreatedDesc(_, _)
InsertByCreatedDesc(row, sorted) ==
    IF sorted = <<>> THEN <<row>>
    ELSE IF row.id > Head(sorted).id THEN <<row>> \o sorted
    ELSE <<Head(sorted)>> \o InsertByCreatedDesc(row, Tail(sorted))

\* Meta.ordering / order_by('-created_at'): newest first, whatever the order
\* of rows; created_at grows with the primary key
RECURSIVE OrderByCreatedDesc(_)
OrderByCreatedDesc(rows) ==
    IF rows = <<>> THEN <<>>
    ELSE InsertByCreatedDesc(Head(rows), OrderByCreatedDesc(Tail(rows)))

\* transaction.created_at.replace(tzinfo=None)
CreatedAt(transaction) == Moment(transaction.created_at, transaction.created_time)

EmptyExpenseData ==
    [total_expenses |-> 0,
     by_category |-> <<>>,
     by_week |-> <<>>,
     expense_count |-> 0,
     average_expense |-> Whole(0),
     last_7_days |-> 0,
     last_30_days |-> 0]

\* variant: the category and week entries are assigned, not accumulated
AccumulateExpense_Overwriting(data, transaction, now) ==
    LET amount == transaction.amount
    IN  [data EXCEPT
            !.total_expenses = @ + amount,
            !.expense_count = @ + 1,
            !.by_category = DictSet(@, transaction.category, amount),
            !.last_7_days =
                IF NotBefore(CreatedAt(transaction), DaysBefore(now, 7))
                THEN @ + amount ELSE @,
            !.last_30_days =
                IF NotBefore(CreatedAt(transaction), DaysBefore(now, 30))
                THEN @ + amount ELSE @,
            !.by_week = DictSet(@, IsoWeek(transaction.created_at), amount)]

\* the body of the loop over the expenses, for one transaction
AccumulateExpense(data, transaction, now) ==
    LET amount == transaction.amount
    IN  [data EXCEPT
            !.total_expenses = @ + amount,
            !.expense_count = @ + 1,
            !.by_category = DictAdd(@, transaction.category, amount),
            !.last_7_days =
                IF NotBefore(CreatedAt(transaction), DaysBefore(now, 7))
                THEN @ + amount ELSE @,
            !.last_30_days =
                IF NotBefore(CreatedAt(transaction), DaysBefore(now, 30))
                THEN @ + amount ELSE @,
            !.by_week = DictAdd(@, IsoWeek(transaction.created_at), amount)]

RECURSIVE AccumulateExpenses(_, _, _)
AccumulateExpenses(data, expenses, now) ==
    IF expenses = <<>> THEN data
    ELSE AccumulateExpenses(AccumulateExpense(data, Head(expenses), now),
                            Tail(expenses), now)

\* variant: the average is computed without the expense_count guard
AverageExpense_Unguarded(data) ==
    Divide(data.total_expenses, data.expense_count)

\* if data['expense_count'] > 0: average = total / count
AverageExpense(data) ==
    IF data.expense_count > 0
    THEN Divide(data.total_expenses, data.expense_count)
    ELSE data.average_expense

\* data['total_expenses'] += amount, float(e.amount), sum(t.amount ...): a
\* TypeError unless every amount is a number
AllNumeric(rows) == \A i \in 1..Len(rows) : rows[i].numeric

\* rows: the account's transactions as the queryset yields them
prepare_expense_data(rows, now) ==
    LET expenses == FilterExpenses(rows)
        data == AccumulateExpenses(EmptyExpenseData, expenses, now)
        result == [data EXCEPT !.average_expense = AverageExpense(data)]
    IN  [raised |-> result.average_expense.raised \/ ~AllNumeric(expenses),
         result |-> result]

(***************************************************************************)
(* ai_analyzer.py: detect_anomalies                                        *)
(***************************************************************************)
\* one entry of the returned list; the message embeds the average
AnomalyEntry(expense, avg) ==
    [amount |-> expense.amount,
     description |-> IF expense.description = <<>> THEN ExpenseText
                     ELSE expense.description,
     date |-> expense.created_at,
     category |-> expense.category,
     avg |-> avg]

\* variant: the sample floor counts every transaction, additions included
InsufficientSample_AllRows(rows, expenses) == Len(rows) < SampleFloor

\* if expenses.count() < 5: return anomalies
InsufficientSample(rows, expenses) == Len(expenses) < SampleFloor

\* avg = sum(amounts) / len(amounts)
AnomalyAverage(expenses) == Divide(SumAmounts(expenses), Len(expenses))

\* threshold = avg * 2
AnomalyThreshold(avg) == Times(avg, AnomalyFactor, 1)

\* variant: every expense is scanned, not only the newest ones
ScannedExpenses_All(expenses) == expenses

\* for expense in expenses[:10]
ScannedExpenses(expenses) == Take(expenses, AnomalyWindow)

\* variant: an amount equal to the threshold is flagged too
IsAnomalous_AtLeast(expense, threshold) ==
    expense.amount * threshold.den >= threshold.num

\* float(expense.amount) > threshold
IsAnomalous(expense, threshold) ==
    expense.amount * threshold.den > threshold.num

detect_anomalies(rows) ==
    LET expenses == OrderByCreatedDesc(FilterExpenses(rows))
    IN  IF InsufficientSample(rows, expenses)
        THEN [raised |-> FALSE, result |-> <<>>]
        ELSE LET avg == AnomalyAverage(expenses)
                 threshold == AnomalyThreshold(avg)
                 flagged == SelectSeq(ScannedExpenses(expenses),
                                      LAMBDA e : IsAnomalous(e, threshold))
             IN  [raised |-> avg.raised \/ ~AllNumeric(expenses),
                  result |-> [i \in 1..Len(flagged) |->
                                 AnomalyEntry(flagged[i], avg)]]

(***************************************************************************)
(* ai_analyzer.py: generate_rule_based_suggestions                         *)
(* A message is its template, the category it names (or "") and the        *)
(* number it embeds (or 0).                                                *)
(***************************************************************************)
Msg(text, category, value) ==
    [text |-> text, category |-> category, value |-> value, second |-> 0]

\* a message that embeds two numbers
Msg2(text, value, second) ==
    [text |-> text, category |-> "", value |-> value, second |-> second]

NoItems ==
    [tips |-> <<>>, warnings |-> <<>>, praise |-> <<>>, raised |-> FALSE]

\* format(q, '.1f') of a percentage q = (x / y) * 100, in tenths: the
\* binary64 value is rounded, which differs from rounding 100x/y only where
\* 1000x/y is an exact half and the binary64 value is not (23 / 80 * 100 is
\* below 28.75 and gives 28.7)
Tenths(q) == RoundFloat(Times(q, 10, 1), q)

\* expense_percentage = total_expenses / total_amount * 100, or 0
ExpensePercentage(expense_data, acct) ==
    IF acct.total_amount > 0
    THEN Times(Divide(expense_data.total_expenses, acct.total_amount), 100, 1)
    ELSE Whole(0)

\* variant: the upper band starts at 70 and the middle band at 50
SpendRateRule_Inclusive(expense_percentage) ==
    IF AtLeast(expense_percentage, 70)
    THEN [NoItems EXCEPT
            !.warnings = <<Msg("You've spent {:.1f}% of your total funds!",
                               "", Tenths(expense_percentage))>>,
            !.tips = <<Msg("Try to reduce daily expenses by 15-20% to stay within budget",
                           "", 0)>>]
    ELSE IF AtLeast(expense_percentage, 50)
    THEN [NoItems EXCEPT
            !.warnings = <<Msg("Your spending is at {:.1f}% - watch your expenses",
                               "", Tenths(expense_percentage))>>,
            !.tips = <<Msg("Consider cutting non-essential expenses by 10%", "", 0)>>]
    ELSE IF Exceeds(expense_percentage, 0)
    THEN [NoItems EXCEPT
            !.praise = <<Msg("Good job! You're spending {:.1f}% - keep it controlled",
                             "", Tenths(expense_percentage))>>]
    ELSE NoItems

\* 1. Overall Spending Rate Analysis
SpendRateRule(expense_percentage) ==
    IF Exceeds(expense_percentage, 70)
    THEN [NoItems EXCEPT
            !.warnings = <<Msg("You've spent {:.1f}% of your total funds!",
                               "", Tenths(expense_percentage))>>,
            !.tips = <<Msg("Try to reduce daily expenses by 15-20% to stay within budget",
                           "", 0)>>]
    ELSE IF Exceeds(expense_percentage, 50)
    THEN [NoItems EXCEPT
            !.warnings = <<Msg("Your spending is at {:.1f}% - watch your expenses",
                               "", Tenths(expense_percentage))>>,
            !.tips = <<Msg("Consider cutting non-essential expenses by 10%", "", 0)>>]
    ELSE IF Exceeds(expense_percentage, 0)
    THEN [NoItems EXCEPT
            !.praise = <<Msg("Good job! You're spending {:.1f}% - keep it controlled",
                             "", Tenths(expense_percentage))>>]
    ELSE NoItems

\* the category-specific tip
CategoryTip(category) ==
    IF category = "Food"
    THEN Msg("Try meal planning and cooking at home to save 20-30% on food", "", 0)
    ELSE IF category = "Shopping"
    THEN Msg("Use the 30-day rule: wait 30 days before buying non-essentials", "", 0)
    ELSE IF category = "Entertainment"
    THEN Msg("Look for free events or share subscription costs with family", "", 0)
    ELSE IF category = "Transport"
    THEN Msg("Consider carpooling or public transport for daily commute", "", 0)
    ELSE Msg("Review your {} expenses and identify savings opportunities",
             category, 0)

\* variant: every category is cut to 7 tenths
CategoryMultiplier_Flat(category) == 7

\* the multiplier of the suggested budget, in tenths
CategoryMultiplier(category) ==
    IF category = "Food" THEN 7
    ELSE IF category = "Shopping" THEN 6
    ELSE IF category = "Entertainment" THEN 7
    ELSE IF category = "Transport" THEN 8
    ELSE 8

\* the largest power of two from p on that does not exceed n / d
RECURSIVE FloorPow2(_, _, _)
FloorPow2(n, d, p) == IF 2 * p * d <= n THEN FloorPow2(n, d, 2 * p) ELSE p

\* f"{cat_amount * m:.0f}" for a whole cat_amount > 0 and m tenths.  The
\* binary64 constant 0.7 lies 0.4 * 2^-53 below 7/10, so where 7/10 of the
\* amount is an exact half the product is that half only while its error,
\* cat_amount * 0.4 * 2^-53, stays within half a unit in the last place;
\* beyond it the product is the next float below and the text rounds down.
\* 6/10 and 8/10 of a whole amount are never an exact half.
BudgetAmount(cat_amount, m) ==
    IF m = 7 /\ cat_amount % 10 = 5
       /\ 2 * cat_amount > 5 * FloorPow2(7 * cat_amount, 10, 1)
    THEN (7 * cat_amount) \div 10
    ELSE RoundHalfEven(Divide(cat_amount * m, 10))

\* f"\u20b9{cat_amount * m:.0f} (reduce by N%)", as its parts
BudgetSuggestion(category, cat_amount) ==
    [prefix |-> "Rs",
     amount |-> BudgetAmount(cat_amount, CategoryMultiplier(category)),
     suffix |-> IF category \in {"Food", "Entertainment"} THEN " (reduce by 30%)"
                ELSE IF category = "Shopping" THEN " (reduce by 40%)"
                ELSE " (reduce by 20%)"]

\* f"{(x / y) * 100:.0f}" for whole x and y: the binary64 value is rounded,
\* which differs from rounding 100x/y only where 100x/y is an exact half and
\* the binary64 value is not (109 / 200 * 100 is above 54.5 and gives 55,
\* 49 / 40 * 100 is above 122.5 and gives 123)
RoundPercent(q) == RoundFloat(q, q)

\* cat_percentage = cat_amount / total_exp * 100
CategoryPercentage(cat_amount, total_exp) ==
    Times(Divide(cat_amount, total_exp), 100, 1)

\* variant: a share of exactly 30% counts as overspending
Overspends_Inclusive(cat_percentage) == AtLeast(cat_percentage, 30)

\* if cat_percentage > 30
Overspends(cat_percentage) == Exceeds(cat_percentage, 30)

NoCategoryItems ==
    [tips |-> <<>>, warnings |-> <<>>, overspending |-> <<>>,
     budget_suggestions |-> <<>>, raised |-> FALSE]

\* the loop over by_category.items(), from entry i on
RECURSIVE CategoryLoop(_, _, _, _)
CategoryLoop(by_category, i, total_exp, acc) ==
    IF i > Len(by_category) THEN acc
    ELSE LET category == by_category[i].key
             cat_amount == by_category[i].value
             cat_percentage == CategoryPercentage(cat_amount, total_exp)
             next ==
                IF cat_percentage.raised
                THEN [acc EXCEPT !.raised = TRUE]
                ELSE IF Overspends(cat_percentage)
                THEN [acc EXCEPT
                        !.overspending = Append(@, category),
                        !.warnings = Append(@,
                            Msg("{} is {:.0f}% of your total spending", category,
                                RoundPercent(cat_percentage))),
                        !.tips = Append(@, CategoryTip(category)),
                        !.budget_suggestions =
                            DictSet(@, category, BudgetSuggestion(category, cat_amount))]
                ELSE acc
         IN  CategoryLoop(by_category, i + 1, total_exp, next)

\* 2. Category-wise Analysis
CategoryRule(expense_data) ==
    IF expense_data.total_expenses > 0
    THEN CategoryLoop(expense_data.by_category, 1, expense_data.total_expenses,
                      NoCategoryItems)
    ELSE NoCategoryItems

\* 3. Small Frequent Expenses Detection
SmallExpenseRule(expense_data) ==
    IF expense_data.expense_count > 0
       /\ Below(expense_data.average_expense, 200)
       /\ expense_data.expense_count > 10
    THEN [NoItems EXCEPT
            !.tips = <<Msg("Small expenses add up! Track daily coffee/snacks - can save 2000+/month",
                           "", 0)>>]
    ELSE NoItems

\* monthly_projection = (last_7_days / 7) * 30
MonthlyProjection(last_7_days) == Times(Divide(last_7_days, 7), 30, 1)

\* variant: the rule already runs with seven expenses
WeeklyTrendRule_FromSeven(expense_data) ==
    IF expense_data.last_7_days > 0 /\ expense_data.expense_count >= 7
    THEN [NoItems EXCEPT
            !.warnings = <<Msg("At current rate, you'll spend {:.0f} this month", "",
                               RoundHalfEven(MonthlyProjection(expense_data.last_7_days)))>>]
    ELSE NoItems

\* 4. Weekly Trend Analysis
WeeklyTrendRule(expense_data) ==
    IF expense_data.last_7_days > 0 /\ expense_data.expense_count > 7
    THEN [NoItems EXCEPT
            !.warnings = <<Msg("At current rate, you'll spend {:.0f} this month", "",
                               RoundHalfEven(MonthlyProjection(expense_data.last_7_days)))>>]
    ELSE NoItems

\* 5. Anomaly Warnings
AnomalyRule(anomalies) ==
    IF anomalies # <<>>
    THEN [NoItems EXCEPT
            !.warnings = <<Msg("Found {} unusually high expenses - review them!", "",
                               Len(anomalies))>>,
            !.tips = <<Msg("Check your high-value transactions to identify one-time vs recurring expenses",
                           "", 0)>>]
    ELSE NoItems

\* target_progress = current_balance / target_amount * 100
TargetProgress(acct) ==
    Times(Divide(acct.current_balance, acct.target_amount), 100, 1)

\* variant: the rule runs whatever the target, and the bands start above
\* 100, 75 and 50
TargetRule_Strict(acct) ==
    LET target_progress == TargetProgress(acct)
        remaining == acct.target_amount - acct.current_balance
    IN  IF target_progress.raised
        THEN [NoItems EXCEPT !.raised = TRUE]
        ELSE IF Exceeds(target_progress, 100)
        THEN [NoItems EXCEPT
                !.praise = <<Msg("Congratulations! You've achieved your savings goal of {}!",
                                 "", acct.target_amount)>>]
        ELSE IF Exceeds(target_progress, 75)
        THEN [NoItems EXCEPT
                !.praise = <<Msg2("You're {:.0f}% to your goal! Just {:.0f} more!",
                                  RoundPercent(target_progress), remaining)>>]
        ELSE IF Exceeds(target_progress, 50)
        THEN [NoItems EXCEPT
                !.praise = <<Msg("Halfway to your {} goal - keep going!", "",
                                 acct.target_amount)>>]
        ELSE [NoItems EXCEPT
                !.tips = <<Msg("Save {:.0f} more to reach your target", "",
                               remaining)>>]

\* 6. Savings Goal Progress
TargetRule(acct) ==
    IF acct.target_amount > 0
    THEN LET target_progress == TargetProgress(acct)
             remaining == acct.target_amount - acct.current_balance
         IN  IF target_progress.raised
             THEN [NoItems EXCEPT !.raised = TRUE]
             ELSE IF AtLeast(target_progress, 100)
             THEN [NoItems EXCEPT
                     !.praise = <<Msg("Congratulations! You've achieved your savings goal of {}!",
                                      "", acct.target_amount)>>]
             ELSE IF AtLeast(target_progress, 75)
             THEN [NoItems EXCEPT
                     !.praise = <<Msg2("You're {:.0f}% to your goal! Just {:.0f} more!",
                                       RoundPercent(target_progress), remaining)>>]
             ELSE IF AtLeast(target_progress, 50)
             THEN [NoItems EXCEPT
                     !.praise = <<Msg("Halfway to your {} goal - keep going!", "",
                                      acct.target_amount)>>]
             ELSE [NoItems EXCEPT
                     !.tips = <<Msg("Save {:.0f} more to reach your target", "",
                                    remaining)>>]
    ELSE NoItems

\* variant: a generic list of three tips
default_tips_Three ==
    <<Msg("Follow the 50/30/20 rule: 50% needs, 30% wants, 20% savings", "", 0),
      Msg("Review your subscriptions - cancel unused ones", "", 0),
      Msg("Set up automatic savings transfers on payday", "", 0)>>

\* 7. General Smart Tips
default_tips ==
    <<Msg("Follow the 50/30/20 rule: 50% needs, 30% wants, 20% savings", "", 0),
      Msg("Review your subscriptions - cancel unused ones", "", 0),
      Msg("Set up automatic savings transfers on payday", "", 0),
      Msg("Make a shopping list and stick to it to avoid impulse buys", "", 0),
      Msg("Use cash for daily expenses to better control spending", "", 0)>>

\* variant: the list is filled up to 5 tips
RECURSIVE Backfill_ToFive(_, _)
Backfill_ToFive(tips, defaults) ==
    IF Len(tips) < 5 /\ defaults # <<>>
    THEN Backfill_ToFive(Append(tips, Head(defaults)), Tail(defaults))
    ELSE tips

\* while len(tips) < 4 and default_tips: tips.append(default_tips.pop(0))
RECURSIVE Backfill(_, _)
Backfill(tips, defaults) ==
    IF Len(tips) < 4 /\ defaults # <<>>
    THEN Backfill(Append(tips, Head(defaults)), Tail(defaults))
    ELSE tips

\* the summary text, as the parts it is built from
Summary(expense_data, anomalies, expense_percentage) ==
    [unavailable |-> FALSE,
     total_expenses |-> expense_data.total_expenses,
     expense_count |-> expense_data.expense_count,
     has_average |-> expense_data.expense_count > 0,
     average |-> IF expense_data.expense_count > 0
                 THEN RoundHalfEven(expense_data.average_expense) ELSE 0,
     anomaly_count |-> Len(anomalies),
     closing |-> IF Exceeds(expense_percentage, 60)
                 THEN "Consider reducing expenses!"
                 ELSE "Keep up the good spending habits!"]

\* variant: the target rule runs first and the anomaly rule before the
\* weekly trend rule
generate_rule_based_suggestions_TargetFirst(expense_data, acct, anomalies) ==
    LET expense_percentage == ExpensePercentage(expense_data, acct)
        r1 == SpendRateRule(expense_percentage)
        r2 == CategoryRule(expense_data)
        r3 == SmallExpenseRule(expense_data)
        r4 == WeeklyTrendRule(expense_data)
        r5 == AnomalyRule(anomalies)
        r6 == TargetRule(acct)
        tips == Backfill(r6.tips \o r1.tips \o r2.tips \o r3.tips \o r5.tips,
                         default_tips)
        warnings == r1.warnings \o r2.warnings \o r5.warnings \o r4.warnings
        praise == r6.praise \o r1.praise
    IN  [raised |-> expense_percentage.raised \/ r2.raised \/ r6.raised,
         collected |-> [tips |-> tips, warnings |-> warnings, praise |-> praise],
         result |->
            [summary |-> Summary(expense_data, anomalies, expense_percentage),
             tips |-> Take(tips, 5),
             overspending |-> r2.overspending,
             budget_suggestions |-> r2.budget_suggestions,
             warnings |-> Take(warnings, 5),
             praise |-> Take(praise, 3),
             anomalies |-> anomalies,
             category_breakdown |-> expense_data.by_category]]

\* the locals as they stand after rule 6: tips, warnings, praise,
\* overspending_categories, budget_suggestions and expense_percentage
RuleItems(expense_data, acct, anomalies) ==
    LET expense_percentage == ExpensePercentage(expense_data, acct)
        r1 == SpendRateRule(expense_percentage)
        r2 == CategoryRule(expense_data)
        r3 == SmallExpenseRule(expense_data)
        r4 == WeeklyTrendRule(expense_data)
        r5 == AnomalyRule(anomalies)
        r6 == TargetRule(acct)
    IN  [raised |-> expense_percentage.raised \/ r2.raised \/ r6.raised,
         expense_percentage |-> expense_percentage,
         tips |-> r1.tips \o r2.tips \o r3.tips \o r5.tips \o r6.tips,
         warnings |-> r1.warnings \o r2.warnings \o r4.warnings \o r5.warnings,
         praise |-> r1.praise \o r6.praise,
         overspending |-> r2.overspending,
         budget_suggestions |-> r2.budget_suggestions]

\* the summary and the return statement, tips being the local list after the
\* loop over default_tips.  result: the returned bundle; collected: the
\* local lists tips, warnings and praise before the return statement cuts them
Returned(items, tips, expense_data, anomalies) ==
    [raised |-> items.raised,
     collected |-> [tips |-> tips, warnings |-> items.warnings,
                    praise |-> items.praise],
     result |->
        [summary |-> Summary(expense_data, anomalies, items.expense_percentage),
         tips |-> Take(tips, 5),
         overspending |-> items.overspending,
         budget_suggestions |-> items.budget_suggestions,
         warnings |-> Take(items.warnings, 5),
         praise |-> Take(items.praise, 3),
         anomalies |-> anomalies,
         category_breakdown |-> expense_data.by_category]]

\* default_tips = [...] and the loop over it, then the return
BackfillAndReturn(items, expense_data, anomalies) ==
    Returned(items, Backfill(items.tips, default_tips), expense_data, anomalies)

generate_rule_based_suggestions(expense_data, acct, anomalies) ==
    BackfillAndReturn(RuleItems(expense_data, acct, anomalies), expense_data,
                      anomalies)

(***************************************************************************)
(* ai_analyzer.py: analyze_expenses_with_ai                                *)
(***************************************************************************)
\* the three steps and their locals; an exception of a step ends the call
analyze_expenses_with_ai(rows, acct, now) ==
    LET expense_data == prepare_expense_data(rows, now)
        anomalies == detect_anomalies(rows)
        insights == generate_rule_based_suggestions(expense_data.result, acct,
                                                    anomalies.result)
    IN  [raised |-> expense_data.raised \/ anomalies.raised \/ insights.raised,
         expense_data |-> expense_data.result,
         anomalies |-> anomalies.result,
         collected |-> insights.collected,
         insights |-> insights.result]

(***************************************************************************)
(* Bounds and input sets of the model                                      *)
(***************************************************************************)
MaxId == 3             \* transactions created in one run
MaxRecurring == 1      \* recurring expenses created in one run
Days == <<30, 31>>     \* the run covers 30 and 31 January
TimesOfDay == <<9, 12>>    \* requests arrive at 09:00 and at 12:00

\* what a client can post: the forms set no minimum server-side
\* ocr_amount 0: no receipt, OCR failed or found nothing;
\* category "": the optional category left unselected
ExpenseInputs ==
    {[expense_amount |-> 9, category |-> "Food", description |-> <<>>,
      ocr_amount |-> 2],
     [expense_amount |-> 0, category |-> "",
      description |-> AutoPrefix \o NetText, ocr_amount |-> 0],
     [expense_amount |-> -1, category |-> "Other", description |-> <<>>,
      ocr_amount |-> 0]}
AddAmounts == {3}
TargetAmounts == {2}
RecurringInputs ==
    {[name |-> NetText, amount |-> 1, billing_date |-> 31, auto_deduct |-> TRUE],
     [name |-> NetflixText, amount |-> 2, billing_date |-> 31, auto_deduct |-> TRUE]}

(***************************************************************************)
(* Responses                                                               *)
(***************************************************************************)
\* views.py analytics: the bundle served when the engine raises
FallbackInsights ==
    [summary |-> [unavailable |-> TRUE, total_expenses |-> 0, expense_count |-> 0,
                  has_average |-> FALSE, average |-> 0, anomaly_count |-> 0,
                  closing |-> ""],
     tips |-> <<>>,
     overspending |-> <<>>,
     budget_suggestions |-> <<>>,
     warnings |-> <<>>,
     praise |-> <<>>,
     anomalies |-> <<>>,
     category_breakdown |-> <<>>]

\* signals.py: an account as it is created with its user, without transactions
NoAccount ==
    [total_amount |-> 0, current_balance |-> 0, target_amount |-> 0,
     transactions |-> <<>>]

\* a response that carries no analysis
Response(view, message, processed) ==
    [view |-> view, message |-> message, processed |-> processed,
     now |-> Moment(0, 0),
     raised |-> FALSE, expense_data |-> EmptyExpenseData, anomalies |-> <<>>,
     collected |-> [tips |-> <<>>, warnings |-> <<>>, praise |-> <<>>],
     ai_insights |-> FallbackInsights]

\* numeric: the stored amount is a number, as every amount that went through
\* a form's DecimalField is; created_at (auto_now_add) is the moment of the
\* insertion, held as its day and its time of day
Row(id, type, amount, description, category, now) ==
    [id |-> id, transaction_type |-> type, amount |-> amount, numeric |-> TRUE,
     description |-> description, category |-> category,
     created_at |-> now.day, created_time |-> now.time]

(***************************************************************************)
(* views.py: home                                                          *)
(***************************************************************************)
\* the amount after the OCR step: the OCR amount when one was found
SubmittedAmount(expense_amount, ocr_amount) ==
    IF ocr_amount # 0 THEN ocr_amount ELSE expense_amount

\* expense_form.cleaned_data.get('category', 'Other'): the key is always there
CleanedCategory(category) == category

\* variant: the test is that some balance is left
BalanceCovers_SomeLeft(balance, amount) == balance > 0

\* if account.current_balance >= amount
BalanceCovers(balance, amount) == balance >= amount

\* POST with expense_submit
home_expense_submit(expense_amount, category, description, ocr_amount) ==
    /\ next_id <= MaxId
    /\ LET amount == SubmittedAmount(expense_amount, ocr_amount)
       IN  IF BalanceCovers(current_balance, amount)
           THEN /\ current_balance' = current_balance - amount
                /\ transactions' = Append(transactions,
                        Row(next_id, "expense", amount,
                            IF description = <<>> THEN ExpenseText ELSE description,
                            CleanedCategory(category), Now))
                /\ next_id' = next_id + 1
                /\ response' = Response("home", "Expense added", 0)
           ELSE /\ response' = Response("home", "Insufficient balance!", 0)
                /\ UNCHANGED <<current_balance, transactions, next_id>>
    /\ UNCHANGED <<other_account, inflight, clock, invocations>>
    /\ UNCHANGED <<total_amount, target_amount, recurring, today>>

\* variant: a further deposit is added to the stored addition, not stored
\* as a transaction of its own
home_add_submit_Merging(add_amount) ==
    /\ next_id <= MaxId
    /\ current_balance' = current_balance + add_amount
    /\ total_amount' = total_amount + add_amount
    /\ IF \E i \in 1..Len(transactions) : transactions[i].transaction_type = "addition"
       THEN LET i == CHOOSE i \in 1..Len(transactions) :
                        transactions[i].transaction_type = "addition"
            IN  /\ transactions' = [transactions EXCEPT ![i].amount = @ + add_amount]
                /\ UNCHANGED next_id
       ELSE /\ transactions' = Append(transactions,
                    Row(next_id, "addition", add_amount, AmountAddedText, "Other",
                        Now))
            /\ next_id' = next_id + 1
    /\ response' = Response("home", "Amount added", 0)
    /\ UNCHANGED <<other_account, inflight, clock, invocations>>
    /\ UNCHANGED <<target_amount, recurring, today>>

\* POST with add_submit
home_add_submit(add_amount) ==
    /\ next_id <= MaxId
    /\ current_balance' = current_balance + add_amount
    /\ total_amount' = total_amount + add_amount
    /\ transactions' = Append(transactions,
            Row(next_id, "addition", add_amount, AmountAddedText, "Other", Now))
    /\ next_id' = next_id + 1
    /\ response' = Response("home", "Amount added", 0)
    /\ UNCHANGED <<other_account, inflight, clock, invocations>>
    /\ UNCHANGED <<target_amount, recurring, today>>

\* POST with target_submit
home_target_submit(target) ==
    /\ target_amount' = target
    /\ response' = Response("home", "Target set", 0)
    /\ UNCHANGED <<other_account, inflight, clock, invocations>>
    /\ UNCHANGED <<total_amount, current_balance, transactions, recurring,
                   next_id, today>>

(***************************************************************************)
(* views.py: transcation (delete a transaction)                            *)
(***************************************************************************)
\* variant: deleting an addition gives the balance back and keeps the total
ReverseTransaction_KeepsTotal(acct, transaction) ==
    IF transaction.transaction_type = "expense"
    THEN [acct EXCEPT !.current_balance = @ + transaction.amount]
    ELSE [acct EXCEPT !.current_balance = @ - transaction.amount]

\* the account figures after reversing one transaction
ReverseTransaction(acct, transaction) ==
    IF transaction.transaction_type = "expense"
    THEN [acct EXCEPT !.current_balance = @ + transaction.amount]
    ELSE [acct EXCEPT !.current_balance = @ - transaction.amount,
                      !.total_amount = @ - transaction.amount]

\* variant: the transaction is looked up by id alone, whoever owns it
transcation_delete_AnyAccount(transaction_id) ==
    /\ IF \E i \in 1..Len(transactions) : transactions[i].id = transaction_id
       THEN LET i == CHOOSE i \in 1..Len(transactions) :
                        transactions[i].id = transaction_id
                after == ReverseTransaction(account, transactions[i])
            IN  /\ current_balance' = after.current_balance
                /\ total_amount' = after.total_amount
                /\ transactions' = SubSeq(transactions, 1, i - 1)
                                   \o SubSeq(transactions, i + 1, Len(transactions))
                /\ response' = Response("transcation", "Transaction deleted!", 0)
                /\ UNCHANGED other_account
       ELSE IF \E i \in 1..Len(other_account.transactions) :
                    other_account.transactions[i].id = transaction_id
       THEN LET i == CHOOSE i \in 1..Len(other_account.transactions) :
                        other_account.transactions[i].id = transaction_id
                after == ReverseTransaction(account, other_account.transactions[i])
            IN  /\ current_balance' = after.current_balance
                /\ total_amount' = after.total_amount
                /\ other_account' =
                      [other_account EXCEPT !.transactions =
                          SubSeq(@, 1, i - 1) \o SubSeq(@, i + 1, Len(@))]
                /\ response' = Response("transcation", "Transaction deleted!", 0)
                /\ UNCHANGED transactions
       ELSE /\ response' = Response("transcation", "Transaction not found!", 0)
            /\ UNCHANGED <<current_balance, total_amount, transactions,
                           other_account>>
    /\ UNCHANGED <<inflight, clock, invocations>>
    /\ UNCHANGED <<target_amount, recurring, next_id, today>>

transcation_delete(transaction_id) ==
    /\ IF \E i \in 1..Len(transactions) : transactions[i].id = transaction_id
       THEN LET i == CHOOSE i \in 1..Len(transactions) :
                        transactions[i].id = transaction_id
                after == ReverseTransaction(account, transactions[i])
            IN  /\ current_balance' = after.current_balance
                /\ total_amount' = after.total_amount
                /\ transactions' = SubSeq(transactions, 1, i - 1)
                                   \o SubSeq(transactions, i + 1, Len(transactions))
                /\ response' = Response("transcation", "Transaction deleted!", 0)
       ELSE /\ response' = Response("transcation", "Transaction not found!", 0)
            /\ UNCHANGED <<current_balance, total_amount, transactions>>
    /\ UNCHANGED <<other_account, inflight, clock, invocations>>
    /\ UNCHANGED <<target_amount, recurring, next_id, today>>

(***************************************************************************)
(* views.py: recurring expenses                                            *)
(***************************************************************************)
\* the form's initial reminder_days
ReminderInitial == 3

\* req.user of the requests of the model, and another registered user
User == "user"
OtherUser == "other"

\* POST of a valid form by user, while the table holds fewer than cap rows:
\* RecurringExpense.objects.create(user=req.user, ..., is_active=True)
CreateRecurring(user, cap, name, amount, billing_date, reminder_days, auto_deduct) ==
    /\ Len(recurring) < cap
    /\ recurring' = Append(recurring,
            [id |-> Len(recurring) + 1, user |-> user, name |-> name,
             amount |-> amount, billing_date |-> billing_date,
             reminder_days |-> reminder_days, is_active |-> TRUE,
             auto_deduct |-> auto_deduct])
    /\ response' = Response("recurring", "added successfully!", 0)
    /\ UNCHANGED <<other_account, inflight, clock, invocations>>
    /\ UNCHANGED <<total_amount, current_balance, target_amount, transactions,
                   next_id, today>>

AddRecurringExpense(cap, name, amount, billing_date, reminder_days, auto_deduct) ==
    CreateRecurring(User, cap, name, amount, billing_date, reminder_days,
                    auto_deduct)

add_recurring_expense(name, amount, billing_date, auto_deduct) ==
    AddRecurringExpense(MaxRecurring, name, amount, billing_date, ReminderInitial,
                        auto_deduct)

\* the same request, posted by the other user
other_add_recurring_expense(cap, form) ==
    CreateRecurring(OtherUser, cap, form.name, form.amount, form.billing_date,
                    form.reminder_days, form.auto_deduct)

\* variant: the record is looked up by its id alone, whoever owns it
delete_recurring_expense_AnyUser(expense_id) ==
    /\ IF expense_id \in 1..Len(recurring)
       THEN /\ recurring' = [recurring EXCEPT ![expense_id].is_active = FALSE]
            /\ response' = Response("recurring", "removed successfully!", 0)
       ELSE /\ response' = Response("recurring", "Recurring expense not found.", 0)
            /\ UNCHANGED recurring
    /\ UNCHANGED <<other_account, inflight, clock, invocations>>
    /\ UNCHANGED <<total_amount, current_balance, target_amount, transactions,
                   next_id, today>>

\* RecurringExpense.objects.get(id=expense_id, user=req.user): DoesNotExist
\* for an id that is not stored and for a record of another user alike
delete_recurring_expense(expense_id) ==
    /\ IF /\ expense_id \in 1..Len(recurring)
          /\ recurring[expense_id].user = User
       THEN /\ recurring' = [recurring EXCEPT ![expense_id].is_active = FALSE]
            /\ response' = Response("recurring", "removed successfully!", 0)
       ELSE /\ response' = Response("recurring", "Recurring expense not found.", 0)
            /\ UNCHANGED recurring
    /\ UNCHANGED <<other_account, inflight, clock, invocations>>
    /\ UNCHANGED <<total_amount, current_balance, target_amount, transactions,
                   next_id, today>>

(***************************************************************************)
(* models.py: RecurringExpense                                             *)
(***************************************************************************)
\* days_until_next_payment: the billing day of this month, not beyond its
\* last day, or of the next month once it has passed; date() raises for a
\* day below 1 and the method then returns 999
days_until_next_payment(expense, day) ==
    LET m == MonthOf(day)
        this_month == Ordinal(m, Min(expense.billing_date, LastDayOf(m)))
        next_month ==
            IF m = 12
            THEN YearLength + Ordinal(1, Min(expense.billing_date, LastDayOf(1)))
            ELSE Ordinal(m + 1, Min(expense.billing_date, LastDayOf(m + 1)))
    IN  IF expense.billing_date < 1 THEN 999
        ELSE IF this_month < day THEN next_month - day
        ELSE this_month - day

is_due_soon(expense, day) ==
    LET days == days_until_next_payment(expense, day)
    IN  0 <= days /\ days <= expense.reminder_days

is_due_today(expense, day) == days_until_next_payment(expense, day) = 0

(***************************************************************************)
(* views.py: recurring_expenses, get_recurring_alerts                      *)
(***************************************************************************)
\* row, stored after the rows of sorted, goes before the first of them
\* with a later billing_date
RECURSIVE InsertByBillingDate(_, _)
InsertByBillingDate(row, sorted) ==
    IF sorted = <<>> THEN <<row>>
    ELSE IF row.billing_date < Head(sorted).billing_date THEN <<row>> \o sorted
    ELSE <<Head(sorted)>> \o InsertByBillingDate(row, Tail(sorted))

\* Meta.ordering = ['billing_date']: every query of recurring expenses
\* yields them by billing_date; rows of one billing_date stay in the order
\* of their primary keys, as the table is read
RECURSIVE OrderByBillingDate(_)
OrderByBillingDate(rows) ==
    IF rows = <<>> THEN <<>>
    ELSE InsertByBillingDate(rows[Len(rows)],
                             OrderByBillingDate(SubSeq(rows, 1, Len(rows) - 1)))

\* RecurringExpense.objects.filter(user=user, is_active=True)
ActiveRecurring(rows) ==
    OrderByBillingDate(SelectSeq(rows, LAMBDA r : r.user = User /\ r.is_active))

\* GET of the page: its context
recurring_expenses ==
    LET active == ActiveRecurring(recurring)
    IN  /\ response' =
              [view |-> "recurring_expenses", message |-> "", processed |-> 0,
               listed |-> active,
               due_today |-> SelectSeq(active,
                                LAMBDA e : days_until_next_payment(e, today) = 0),
               upcoming |-> SelectSeq(active,
                                LAMBDA e : days_until_next_payment(e, today) # 0
                                           /\ is_due_soon(e, today))]
        /\ UNCHANGED <<other_account, inflight, clock, invocations>>
        /\ UNCHANGED <<total_amount, current_balance, target_amount, transactions,
                       recurring, next_id, today>>

\* one entry of the alerts
Alert(expense, day) ==
    [id |-> expense.id, name |-> expense.name, amount |-> expense.amount,
     days_until |-> days_until_next_payment(expense, day),
     is_due_today |-> is_due_today(expense, day)]

\* GET: the JSON answer
get_recurring_alerts ==
    LET due == SelectSeq(ActiveRecurring(recurring),
                         LAMBDA e : is_due_soon(e, today)
                                    \/ days_until_next_payment(e, today) = 0)
    IN  /\ response' =
              [view |-> "recurring_alerts", message |-> "", processed |-> 0,
               listed |-> [i \in 1..Len(due) |-> Alert(due[i], today)]]
        /\ UNCHANGED <<other_account, inflight, clock, invocations>>
        /\ UNCHANGED <<total_amount, current_balance, target_amount, transactions,
                       recurring, next_id, today>>

(***************************************************************************)
(* views.py: process_recurring_payments                                    *)
(***************************************************************************)
\* RecurringExpense.objects.filter(user=user, is_active=True,
\*                                 auto_deduct=True, billing_date=today.day)
DueToday(rows, day) ==
    OrderByBillingDate(
        SelectSeq(rows, LAMBDA r : r.user = User /\ r.is_active /\ r.auto_deduct
                                   /\ r.billing_date = DayOfMonth(day)))

\* Transaction.objects.filter(description__contains='Auto: name',
\*                            created_at__date=today).exists()
AlreadyProcessed(rows, expense, day) ==
    \E i \in 1..Len(rows) :
        /\ Contains(rows[i].description, AutoPrefix \o expense.name)
        /\ rows[i].created_at = day

\* one pass of the loop body that creates the transaction and updates the balance
AutoDeduct(st, expense, now) ==
    [transactions |-> Append(st.transactions,
                        Row(st.next_id, "expense", expense.amount,
                            AutoPrefix \o expense.name, "Bills", now)),
     current_balance |-> st.current_balance - expense.amount,
     next_id |-> st.next_id + 1,
     processed |-> st.processed + 1]

\* for expense in due_today
RECURSIVE ProcessLoop(_, _, _)
ProcessLoop(due, st, now) ==
    IF due = <<>> THEN st
    ELSE ProcessLoop(Tail(due),
                     IF AlreadyProcessed(st.transactions, Head(due), now.day)
                     THEN st ELSE AutoDeduct(st, Head(due), now),
                     now)

\* the request, while it leaves the primary keys within cap
ProcessRecurringPayments(cap) ==
    LET due_today == DueToday(recurring, today)
        done == ProcessLoop(due_today,
                            [transactions |-> transactions,
                             current_balance |-> current_balance,
                             next_id |-> next_id, processed |-> 0],
                            Now)
    IN  /\ next_id + Len(due_today) <= cap + 1
        /\ transactions' = done.transactions
        /\ current_balance' = done.current_balance
        /\ next_id' = done.next_id
        /\ response' = Response("process_recurring", "success", done.processed)
        /\ UNCHANGED <<other_account, inflight, clock, invocations>>
        /\ UNCHANGED <<total_amount, target_amount, recurring, today>>

process_recurring_payments == ProcessRecurringPayments(MaxId)

(***************************************************************************)
(* views.py: analytics                                                     *)
(***************************************************************************)
\* account.transactions.all(): Meta.ordering = ['-created_at']
AccountTransactions == OrderByCreatedDesc(transactions)

\* variant: the engine stores the transactions back in the order it read them
analytics_StoringOrder ==
    LET call == analyze_expenses_with_ai(AccountTransactions, account, Now)
    IN  /\ response' =
              [view |-> "analytics", message |-> "", processed |-> 0,
               now |-> Now, raised |-> call.raised,
               expense_data |-> call.expense_data,
               anomalies |-> call.anomalies,
               collected |-> call.collected,
               ai_insights |-> IF call.raised THEN FallbackInsights
                               ELSE call.insights]
        /\ transactions' = AccountTransactions
        /\ UNCHANGED <<other_account, inflight, clock, invocations>>
        /\ UNCHANGED <<total_amount, current_balance, target_amount,
                       recurring, next_id, today>>

\* QuerySet.filter(transaction_type='addition')
FilterAdditions(rows) ==
    SelectSeq(rows, LAMBDA t : t.transaction_type = "addition")

\* total_expenses = sum(...), total_additions = sum(...), the chart loops:
\* the view adds up and converts every amount itself, before the try block
ViewTotalsRaise(rows) ==
    ~AllNumeric(FilterExpenses(rows)) \/ ~AllNumeric(FilterAdditions(rows))

\* an exception that leaves the view: the request fails
ServerError(view) == Response("error", view, 0)

\* the totals and charts; then
\* try: analyze_expenses_with_ai(...) except Exception: the fallback bundle
analytics ==
    LET call == analyze_expenses_with_ai(AccountTransactions, account, Now)
    IN  /\ response' =
              IF ViewTotalsRaise(AccountTransactions)
              THEN ServerError("analytics")
              ELSE [view |-> "analytics", message |-> "", processed |-> 0,
                    now |-> Now, raised |-> call.raised,
                    expense_data |-> call.expense_data,
                    anomalies |-> call.anomalies,
                    collected |-> call.collected,
                    ai_insights |-> IF call.raised THEN FallbackInsights
                                    ELSE call.insights]
        /\ UNCHANGED <<other_account, inflight, clock, invocations>>
        /\ UNCHANGED <<total_amount, current_balance, target_amount, transactions,
                       recurring, next_id, today>>

\* the calendar day passes
next_day ==
    /\ today < Days[Len(Days)]
    /\ today' = today + 1
    /\ UNCHANGED <<other_account, inflight, clock, invocations>>
    /\ UNCHANGED <<total_amount, current_balance, target_amount, transactions,
                   recurring, next_id, response>>

(***************************************************************************)
(* The account's requests, one after the other                             *)
(***************************************************************************)
Init ==
    /\ total_amount = 0
    /\ current_balance = 0
    /\ target_amount = 0
    /\ transactions = <<>>
    /\ recurring = <<>>
    /\ next_id = 1
    /\ today = Days[1]
    /\ response = Response("none", "", 0)
    /\ other_account = NoAccount
    /\ inflight = <<>>
    /\ invocations = <<>>
    /\ clock = TimesOfDay[1]

Next ==
    \/ \E f \in ExpenseInputs :
          home_expense_submit(f.expense_amount, f.category, f.description,
                              f.ocr_amount)
    \/ \E a \in AddAmounts : home_add_submit(a)
    \/ \E t \in TargetAmounts : home_target_submit(t)
    \/ \E id \in 1..MaxId : transcation_delete(id)
    \/ \E f \in RecurringInputs :
          add_recurring_expense(f.name, f.amount, f.billing_date, f.auto_deduct)
    \/ \E id \in 1..MaxRecurring : delete_recurring_expense(id)
    \/ process_recurring_payments
    \/ analytics
    \/ next_day

Spec == Init /\ [][Next]_vars

(***************************************************************************)
(* The engine on bounded inputs: any account figures, and a history of     *)
(* deposits followed by small and large expenses, one every EngineStride   *)
(* days from 1 January on                                                  *)
(***************************************************************************)
MaxEngineTx == 11      \* transactions of a history
MaxDeposits == 1       \* additions that open a history
EngineStride == 3      \* days between two transactions

EngineFigures ==
    {[total_amount |-> 0, current_balance |-> 0, target_amount |-> 0],
     [total_amount |-> 20, current_balance |-> 12, target_amount |-> 16],
     [total_amount |-> -2, current_balance |-> -3, target_amount |-> 4]}

EngineInputs ==
    {[transaction_type |-> "expense", amount |-> 1, category |-> "Food",
      description |-> <<>>],
     [transaction_type |-> "expense", amount |-> 5, category |-> "Shopping",
      description |-> NetText],
     [transaction_type |-> "addition", amount |-> 5, category |-> "Other",
      description |-> AmountAddedText]}

\* a stored transaction, as Transaction.objects.create leaves it
engine_record(t) ==
    /\ Len(transactions) < MaxEngineTx
    /\ t.transaction_type = "addition" =>
          /\ FilterExpenses(transactions) = <<>>
          /\ Len(transactions) < MaxDeposits
    /\ transactions' = Append(transactions,
            Row(next_id, t.transaction_type, t.amount, t.description,
                t.category, Now))
    /\ next_id' = next_id + 1
    /\ today' = today + EngineStride
    /\ response' = Response("record", "", 0)
    /\ UNCHANGED <<other_account, inflight, clock, invocations>>
    /\ UNCHANGED <<total_amount, current_balance, target_amount, recurring>>

EngineInit ==
    /\ \E f \in EngineFigures :
          /\ total_amount = f.total_amount
          /\ current_balance = f.current_balance
          /\ target_amount = f.target_amount
    /\ transactions = <<>>
    /\ recurring = <<>>
    /\ next_id = 1
    /\ today = 1
    /\ response = Response("none", "", 0)
    /\ other_account = NoAccount
    /\ inflight = <<>>
    /\ invocations = <<>>
    /\ clock = TimesOfDay[1]

EngineNext ==
    \/ \E t \in EngineInputs : engine_record(t)
    \/ analytics

EngineSpec == EngineInit /\ [][EngineNext]_vars

(***************************************************************************)
(* The rule evaluator on bounded inputs: account figures on either side of *)
(* each threshold, and a history of expenses of five categories, grouped   *)
(* by category, one every EngineStride days from 1 January on              *)
(***************************************************************************)
MaxRuleTx == 11        \* expenses of a history

RuleFigures ==
    {[total_amount |-> 0, current_balance |-> 0, target_amount |-> 0],
     [total_amount |-> 20, current_balance |-> 20, target_amount |-> 16],
     [total_amount |-> 20, current_balance |-> 12, target_amount |-> 16],
     [total_amount |-> 20, current_balance |-> 8, target_amount |-> 16],
     [total_amount |-> 20, current_balance |-> 4, target_amount |-> 16],
     [total_amount |-> 40, current_balance |-> 9, target_amount |-> 0]}

\* "Gifts": a category string outside CATEGORY_CHOICES
RuleInputs ==
    <<[amount |-> 1, category |-> "Food", description |-> <<>>],
      [amount |-> 3, category |-> "Gifts", description |-> <<>>],
      [amount |-> 5, category |-> "Entertainment", description |-> NetflixText],
      [amount |-> 9, category |-> "Shopping", description |-> NetText],
      [amount |-> 9, category |-> "Transport", description |-> <<>>]>>

\* the place of a stored expense's category in RuleInputs
RuleKind(row) ==
    CHOOSE k \in 1..Len(RuleInputs) : RuleInputs[k].category = row.category

\* a stored expense, as Transaction.objects.create leaves it
rule_record(k) ==
    /\ Len(transactions) < MaxRuleTx
    /\ transactions # <<>> => RuleKind(transactions[Len(transactions)]) <= k
    /\ transactions' = Append(transactions,
            Row(next_id, "expense", RuleInputs[k].amount,
                RuleInputs[k].description, RuleInputs[k].category, Now))
    /\ next_id' = next_id + 1
    /\ today' = today + EngineStride
    /\ response' = Response("record", "", 0)
    /\ UNCHANGED <<other_account, inflight, clock, invocations>>
    /\ UNCHANGED <<total_amount, current_balance, target_amount, recurring>>

RuleInit ==
    /\ \E f \in RuleFigures :
          /\ total_amount = f.total_amount
          /\ current_balance = f.current_balance
          /\ target_amount = f.target_amount
    /\ transactions = <<>>
    /\ recurring = <<>>
    /\ next_id = 1
    /\ today = 1
    /\ response = Response("none", "", 0)
    /\ other_account = NoAccount
    /\ inflight = <<>>
    /\ invocations = <<>>
    /\ clock = TimesOfDay[1]

RuleNext ==
    \/ \E k \in 1..Len(RuleInputs) : rule_record(k)
    \/ analytics

RuleSpec == RuleInit /\ [][RuleNext]_vars

(***************************************************************************)
(* The engine called several times by one process, statement by statement  *)
(* where it fills the tips: an invocation takes its arguments, runs the    *)
(* aggregator, the anomaly detector and rules 1 to 6, builds default_tips, *)
(* pops from it while the tips are fewer than 4, and returns.  Expenses    *)
(* are stored between invocations, not during one.                         *)
(***************************************************************************)
MaxCalls == 3          \* invocations of a run
MaxCallTx == 3         \* expenses of a history

NoCallRuns == \A i \in 1..Len(invocations) : invocations[i].pc = "done"

\* a stored expense, as Transaction.objects.create leaves it
call_record(k) ==
    /\ NoCallRuns
    /\ Len(transactions) < MaxCallTx
    /\ transactions # <<>> => RuleKind(transactions[Len(transactions)]) <= k
    /\ transactions' = Append(transactions,
            Row(next_id, "expense", RuleInputs[k].amount,
                RuleInputs[k].description, RuleInputs[k].category, Now))
    /\ next_id' = next_id + 1
    /\ today' = today + EngineStride
    /\ response' = Response("record", "", 0)
    /\ UNCHANGED <<other_account, inflight, clock, invocations>>
    /\ UNCHANGED <<total_amount, current_balance, target_amount, recurring>>

\* the frame of an invocation once rule 6 is through and default_tips is
\* built from listed: its arguments, 'now', and its locals
Frame(rows, acct, now, listed) ==
    LET expense_data == prepare_expense_data(rows, now)
        anomalies == detect_anomalies(rows)
        items == RuleItems(expense_data.result, acct, anomalies.result)
    IN  [pc |-> IF expense_data.raised \/ anomalies.raised \/ items.raised
                THEN "raised" ELSE "backfill",
         transactions |-> rows, account |-> acct, now |-> now,
         expense_data |-> expense_data.result, anomalies |-> anomalies.result,
         items |-> items, tips |-> items.tips, default_tips |-> listed,
         returned |-> <<>>]

\* variant: default_tips is a list of the module, built once: an invocation
\* finds what the invocation before it left of it
engine_enter_SharedTips ==
    /\ NoCallRuns
    /\ Len(invocations) < MaxCalls
    /\ invocations' = Append(invocations,
            Frame(AccountTransactions, account, Now,
                  IF invocations = <<>> THEN default_tips
                  ELSE invocations[Len(invocations)].default_tips))
    /\ UNCHANGED <<total_amount, current_balance, target_amount, transactions,
                   recurring, next_id, today, response, other_account, inflight,
                   clock>>

\* analyze_expenses_with_ai(transactions, account) up to the loop over
\* default_tips, a list the invocation builds for itself
engine_enter ==
    /\ NoCallRuns
    /\ Len(invocations) < MaxCalls
    /\ invocations' = Append(invocations,
            Frame(AccountTransactions, account, Now, default_tips))
    /\ UNCHANGED <<total_amount, current_balance, target_amount, transactions,
                   recurring, next_id, today, response, other_account, inflight,
                   clock>>

\* while len(tips) < 4 and default_tips
LoopGoesOn(frame) == Len(frame.tips) < 4 /\ frame.default_tips # <<>>

\* tips.append(default_tips.pop(0))
engine_pop ==
    /\ invocations # <<>>
    /\ LET i == Len(invocations)
       IN  /\ invocations[i].pc = "backfill"
           /\ LoopGoesOn(invocations[i])
           /\ invocations' =
                 [invocations EXCEPT
                     ![i].tips = Append(@, Head(invocations[i].default_tips)),
                     ![i].default_tips = Tail(@)]
    /\ UNCHANGED <<total_amount, current_balance, target_amount, transactions,
                   recurring, next_id, today, response, other_account, inflight,
                   clock>>

\* the loop ends: the summary and the return statement
engine_return ==
    /\ invocations # <<>>
    /\ LET i == Len(invocations)
           frame == invocations[i]
       IN  /\ frame.pc = "backfill"
           /\ ~LoopGoesOn(frame)
           /\ invocations' =
                 [invocations EXCEPT
                     ![i].pc = "done",
                     ![i].returned =
                         <<Returned(frame.items, frame.tips, frame.expense_data,
                                    frame.anomalies).result>>]
    /\ UNCHANGED <<total_amount, current_balance, target_amount, transactions,
                   recurring, next_id, today, response, other_account, inflight,
                   clock>>

CallNext ==
    \/ \E k \in 1..Len(RuleInputs) : call_record(k)
    \/ engine_enter
    \/ engine_pop
    \/ engine_return

CallSpec == RuleInit /\ [][CallNext]_vars

(***************************************************************************)
(* The analytics request over what the tables can hold: account figures,   *)
(* and transactions whose amount is a number or is not one (a value no     *)
(* form wrote), one every EngineStride days from 1 January on              *)
(***************************************************************************)
MaxStoredTx == 3       \* transactions of a history

\* a stored transaction; numeric: whether its amount is a number
stored_record(t, numeric) ==
    /\ Len(transactions) < MaxStoredTx
    /\ transactions' = Append(transactions,
            [Row(next_id, t.transaction_type, t.amount, t.description,
                 t.category, Now) EXCEPT !.numeric = numeric])
    /\ next_id' = next_id + 1
    /\ today' = today + EngineStride
    /\ response' = Response("record", "", 0)
    /\ UNCHANGED <<other_account, inflight, clock, invocations>>
    /\ UNCHANGED <<total_amount, current_balance, target_amount, recurring>>

StoredNext ==
    \/ \E t \in EngineInputs, numeric \in BOOLEAN : stored_record(t, numeric)
    \/ analytics

StoredSpec == EngineInit /\ [][StoredNext]_vars

(***************************************************************************)
(* The engine called on the stored expenses oldest first or newest first:  *)
(* the functions take whatever iterable they are given.  The histories     *)
(* are expenses grouped by category, one every EngineStride days from      *)
(* 1 January on, long enough for the anomaly detector to run and for a     *)
(* second week to begin.                                                   *)
(***************************************************************************)
MaxOrderTx == 5        \* expenses of a history

\* an account of which more or less than half is spent, its target near or far
OrderInit ==
    /\ RuleInit
    /\ total_amount = 20
    /\ current_balance \in {4, 12}

\* a stored expense, as Transaction.objects.create leaves it
order_record(k) ==
    /\ Len(transactions) < MaxOrderTx
    /\ transactions # <<>> => RuleKind(transactions[Len(transactions)]) <= k
    /\ transactions' = Append(transactions,
            Row(next_id, "expense", RuleInputs[k].amount,
                RuleInputs[k].description, RuleInputs[k].category, Now))
    /\ next_id' = next_id + 1
    /\ today' = today + EngineStride
    /\ response' = Response("record", "", 0)
    /\ UNCHANGED <<other_account, inflight, clock, invocations>>
    /\ UNCHANGED <<total_amount, current_balance, target_amount, recurring>>

\* the orders in which n rows can be handed over
Orders(n) ==
    {p \in [1..n -> 1..n] : \A i, j \in 1..n : p[i] = p[j] => i = j}

\* as stored, and as Meta.ordering = ['-created_at'] yields them
OldestFirst(n) == [i \in 1..n |-> i]
NewestFirst(n) == [i \in 1..n |-> n + 1 - i]

InOrder(rows, p) == [i \in 1..Len(rows) |-> rows[p[i]]]

\* analyze_expenses_with_ai(rows, account) with rows in the order p
engine_call(p) ==
    LET call == analyze_expenses_with_ai(InOrder(transactions, p), account, Now)
    IN  /\ response' =
              [view |-> "engine", message |-> "", processed |-> 0,
               now |-> Now, raised |-> call.raised,
               expense_data |-> call.expense_data,
               anomalies |-> call.anomalies,
               collected |-> call.collected,
               ai_insights |-> call.insights]
        /\ UNCHANGED <<other_account, inflight, clock, invocations>>
        /\ UNCHANGED <<total_amount, current_balance, target_amount, transactions,
                       recurring, next_id, today>>

OrderNext ==
    \/ \E k \in 1..Len(RuleInputs) : order_record(k)
    \/ engine_call(OldestFirst(Len(transactions)))
    \/ engine_call(NewestFirst(Len(transactions)))

OrderSpec == OrderInit /\ [][OrderNext]_vars

(***************************************************************************)
(* The engine on histories that age: expenses of one unit, several a day,  *)
(* and days that pass without any                                          *)
(***************************************************************************)
MaxTrendTx == 9        \* expenses of a history
MaxTrendDay == 13      \* the last day of a history

\* a stored expense; the day goes on
trend_record ==
    /\ Len(transactions) < MaxTrendTx
    /\ transactions' = Append(transactions,
            Row(next_id, "expense", RuleInputs[1].amount,
                RuleInputs[1].description, RuleInputs[1].category, Now))
    /\ next_id' = next_id + 1
    /\ response' = Response("record", "", 0)
    /\ UNCHANGED <<other_account, inflight, clock, invocations>>
    /\ UNCHANGED <<total_amount, current_balance, target_amount, recurring, today>>

\* EngineStride days pass
trend_wait ==
    /\ today + EngineStride <= MaxTrendDay
    /\ today' = today + EngineStride
    /\ UNCHANGED <<other_account, inflight, clock, invocations>>
    /\ UNCHANGED <<total_amount, current_balance, target_amount, transactions,
                   recurring, next_id, response>>

TrendNext ==
    \/ trend_record
    \/ trend_wait
    \/ analytics

TrendSpec == EngineInit /\ [][TrendNext]_vars

(***************************************************************************)
(* The recurring expenses around the end of February: their creation,      *)
(* removal, listing and automatic deduction by the user, in a table that   *)
(* also takes the recurring expenses the other user creates                *)
(***************************************************************************)
MaxDueRecurring == 2   \* recurring expenses the user creates in one run
MaxRecurringTx == 6    \* transactions created in one run
RecurringDays == <<58, 59, 60>>    \* 27 and 28 February, 1 March

RecurringForms ==
    {[name |-> NetflixText, amount |-> 2, billing_date |-> 28, reminder_days |-> 3,
      auto_deduct |-> TRUE],
     [name |-> NetText, amount |-> 1, billing_date |-> 28, reminder_days |-> 0,
      auto_deduct |-> TRUE],
     [name |-> NetText, amount |-> 1, billing_date |-> 31, reminder_days |-> 3,
      auto_deduct |-> TRUE],
     [name |-> NetflixText, amount |-> 2, billing_date |-> 1, reminder_days |-> 3,
      auto_deduct |-> FALSE]}

\* what the other user posts: due on the same day as the user's, deducted
\* automatically
OtherRecurringForms ==
    {[name |-> NetflixText, amount |-> 2, billing_date |-> 28, reminder_days |-> 3,
      auto_deduct |-> TRUE]}

\* the calendar day passes
recurring_next_day ==
    /\ today < RecurringDays[Len(RecurringDays)]
    /\ today' = today + 1
    /\ UNCHANGED <<other_account, inflight, clock, invocations>>
    /\ UNCHANGED <<total_amount, current_balance, target_amount, transactions,
                   recurring, next_id, response>>

RecurringInit ==
    /\ total_amount = 0
    /\ current_balance = 0
    /\ target_amount = 0
    /\ transactions = <<>>
    /\ recurring = <<>>
    /\ next_id = 1
    /\ today = RecurringDays[1]
    /\ response = Response("none", "", 0)
    /\ other_account = NoAccount
    /\ inflight = <<>>
    /\ invocations = <<>>
    /\ clock = TimesOfDay[1]

RecurringNext ==
    \/ \E f \in RecurringForms :
          AddRecurringExpense(MaxDueRecurring, f.name, f.amount, f.billing_date,
                              f.reminder_days, f.auto_deduct)
    \/ \E f \in OtherRecurringForms :
          other_add_recurring_expense(MaxDueRecurring + 1, f)
    \/ \E id \in 1..(MaxDueRecurring + 1) : delete_recurring_expense(id)
    \/ ProcessRecurringPayments(MaxRecurringTx)
    \/ recurring_expenses
    \/ get_recurring_alerts
    \/ recurring_next_day

RecurringSpec == RecurringInit /\ [][RecurringNext]_vars

(***************************************************************************)
(* Expenses that are exactly 7 and 30 days old when the analytics page is  *)
(* requested: whether they count in last_7_days and last_30_days depends   *)
(* on the two times of day.                                                *)
(***************************************************************************)
MaxWindowTx == 2       \* expenses of a history
WindowDays == <<1, 8, 31>>

window_record ==
    /\ Len(transactions) < MaxWindowTx
    /\ transactions' = Append(transactions,
            Row(next_id, "expense", RuleInputs[2].amount, ExpenseText,
                RuleInputs[2].category, Now))
    /\ next_id' = next_id + 1
    /\ response' = Response("record", "", 0)
    /\ UNCHANGED <<other_account, inflight, clock, invocations>>
    /\ UNCHANGED <<total_amount, current_balance, target_amount, recurring, today>>

\* the time of day passes
window_later ==
    /\ \E i \in 1..(Len(TimesOfDay) - 1) :
          clock = TimesOfDay[i] /\ clock' = TimesOfDay[i + 1]
    /\ UNCHANGED <<total_amount, current_balance, target_amount, transactions,
                   recurring, next_id, today, response, other_account, inflight,
                   invocations>>

\* the days pass, up to some time of the next day of the run
window_next_day ==
    /\ \E i \in 1..(Len(WindowDays) - 1) :
          today = WindowDays[i] /\ today' = WindowDays[i + 1]
    /\ \E i \in 1..Len(TimesOfDay) : clock' = TimesOfDay[i]
    /\ UNCHANGED <<total_amount, current_balance, target_amount, transactions,
                   recurring, next_id, response, other_account, inflight,
                   invocations>>

WindowNext ==
    \/ window_record
    \/ window_later
    \/ window_next_day
    \/ analytics

WindowSpec == EngineInit /\ [][WindowNext]_vars

(***************************************************************************)
(* Histories with an expense of negative amount, which the expense form    *)
(* accepts: one expense of 1 in each of four categories and one of -1 in a *)
(* fifth, each at most once, oldest first.                                 *)
(***************************************************************************)
MaxSignedTx == 5       \* expenses of a history

SignedInputs ==
    <<[amount |-> 1, category |-> "Food"],
      [amount |-> 1, category |-> "Transport"],
      [amount |-> 1, category |-> "Shopping"],
      [amount |-> 1, category |-> "Bills"],
      [amount |-> -1, category |-> "Other"]>>

SignedKind(row) ==
    CHOOSE k \in 1..Len(SignedInputs) : SignedInputs[k].category = row.category

signed_record(k) ==
    /\ Len(transactions) < MaxSignedTx
    /\ transactions # <<>> => SignedKind(transactions[Len(transactions)]) < k
    /\ transactions' = Append(transactions,
            Row(next_id, "expense", SignedInputs[k].amount, ExpenseText,
                SignedInputs[k].category, Now))
    /\ next_id' = next_id + 1
    /\ today' = today + EngineStride
    /\ response' = Response("record", "", 0)
    /\ UNCHANGED <<other_account, inflight, clock, invocations>>
    /\ UNCHANGED <<total_amount, current_balance, target_amount, recurring>>

SignedNext ==
    \/ \E k \in 1..Len(SignedInputs) : signed_record(k)
    \/ analytics

SignedSpec == RuleInit /\ [][SignedNext]_vars

(***************************************************************************)
(* Two users.  The requests of the other user run the same code on the     *)
(* other user's account; transaction ids come from one table.              *)
(***************************************************************************)
OtherAddAmounts == {5}
OtherExpenseAmounts == {2}

other_add_submit(add_amount) ==
    /\ next_id <= MaxId
    /\ other_account' =
          [other_account EXCEPT
              !.current_balance = @ + add_amount,
              !.total_amount = @ + add_amount,
              !.transactions = Append(@, Row(next_id, "addition", add_amount,
                                             AmountAddedText, "Other", Now))]
    /\ next_id' = next_id + 1
    /\ response' = Response("home", "Amount added", 0)
    /\ UNCHANGED <<total_amount, current_balance, target_amount, transactions,
                   recurring, today, inflight, clock, invocations>>

other_expense_submit(expense_amount) ==
    /\ next_id <= MaxId
    /\ IF BalanceCovers(other_account.current_balance, expense_amount)
       THEN /\ other_account' =
                  [other_account EXCEPT
                      !.current_balance = @ - expense_amount,
                      !.transactions = Append(@, Row(next_id, "expense",
                                                     expense_amount, ExpenseText,
                                                     "Other", Now))]
            /\ next_id' = next_id + 1
            /\ response' = Response("home", "Expense added", 0)
       ELSE /\ response' = Response("home", "Insufficient balance!", 0)
            /\ UNCHANGED <<other_account, next_id>>
    /\ UNCHANGED <<total_amount, current_balance, target_amount, transactions,
                   recurring, today, inflight, clock, invocations>>

TwoUsersNext ==
    \/ \E f \in ExpenseInputs :
          home_expense_submit(f.expense_amount, f.category, f.description,
                              f.ocr_amount)
    \/ \E a \in AddAmounts : home_add_submit(a)
    \/ \E id \in 1..MaxId : transcation_delete(id)
    \/ \E a \in OtherAddAmounts : other_add_submit(a)
    \/ \E a \in OtherExpenseAmounts : other_expense_submit(a)

TwoUsersSpec == Init /\ [][TwoUsersNext]_vars

(***************************************************************************)
(* Requests of one user served at once.  A view runs outside any database  *)
(* transaction, so each of its queries is a step of its own: it reads the  *)
(* account row into an object, changes the object, and save() writes every *)
(* field of the object back.                                               *)
(***************************************************************************)
MaxInflight == 2       \* requests served at once

\* the tables a request reads and writes
Database ==
    [total_amount |-> total_amount, current_balance |-> current_balance,
     target_amount |-> target_amount, transactions |-> transactions,
     next_id |-> next_id]

AccountOf(db) ==
    [total_amount |-> db.total_amount, current_balance |-> db.current_balance,
     target_amount |-> db.target_amount]

\* account.save(): every field of the object is written
Save(db, acct) ==
    [db EXCEPT !.total_amount = acct.total_amount,
               !.current_balance = acct.current_balance,
               !.target_amount = acct.target_amount]

\* Transaction.objects.create(...)
Create(db, type, amount, description, category, now) ==
    [db EXCEPT !.transactions = Append(@, Row(db.next_id, type, amount,
                                               description, category, now)),
               !.next_id = @ + 1]

\* a request as it arrives: kind is the view and form, amount the cleaned
\* amount (for an expense, after the OCR step), id the posted transaction_id
NewRequest(kind, amount, id) ==
    [kind |-> kind, amount |-> amount, id |-> id, pc |-> "start",
     account |-> AccountOf(NoAccount), found |-> <<>>, due |-> <<>>,
     message |-> "", processed |-> 0]

\* the request and the tables after its next query
RequestStep(db, req, now) ==
    CASE req.kind = "add_submit" /\ req.pc = "start" ->
            \* account = req.user.expense_account
            [db |-> db, req |-> [req EXCEPT !.account = AccountOf(db), !.pc = "save"]]
      [] req.kind = "add_submit" /\ req.pc = "save" ->
            [db |-> Save(db, [req.account EXCEPT
                                !.current_balance = @ + req.amount,
                                !.total_amount = @ + req.amount]),
             req |-> [req EXCEPT !.pc = "create"]]
      [] req.kind = "add_submit" /\ req.pc = "create" ->
            [db |-> Create(db, "addition", req.amount, AmountAddedText, "Other", now),
             req |-> [req EXCEPT !.pc = "done", !.message = "Amount added"]]
      [] req.kind = "expense_submit" /\ req.pc = "start" ->
            [db |-> db, req |-> [req EXCEPT !.account = AccountOf(db), !.pc = "save"]]
      [] req.kind = "expense_submit" /\ req.pc = "save" ->
            IF BalanceCovers(req.account.current_balance, req.amount)
            THEN [db |-> Save(db, [req.account EXCEPT
                                      !.current_balance = @ - req.amount]),
                  req |-> [req EXCEPT !.pc = "create"]]
            ELSE [db |-> db,
                  req |-> [req EXCEPT !.pc = "done",
                                      !.message = "Insufficient balance!"]]
      [] req.kind = "expense_submit" /\ req.pc = "create" ->
            [db |-> Create(db, "expense", req.amount, ExpenseText, "Food", now),
             req |-> [req EXCEPT !.pc = "done", !.message = "Expense added"]]
      [] req.kind = "delete_transaction" /\ req.pc = "start" ->
            [db |-> db, req |-> [req EXCEPT !.account = AccountOf(db), !.pc = "get"]]
      [] req.kind = "delete_transaction" /\ req.pc = "get" ->
            \* Transaction.objects.get(id=transaction_id, user_account=account)
            IF req.id \in {db.transactions[i].id : i \in 1..Len(db.transactions)}
            THEN [db |-> db,
                  req |-> [req EXCEPT
                             !.found = <<db.transactions[
                                CHOOSE i \in 1..Len(db.transactions) :
                                    db.transactions[i].id = req.id]>>,
                             !.pc = "save"]]
            ELSE [db |-> db,
                  req |-> [req EXCEPT !.pc = "done",
                                      !.message = "Transaction not found!"]]
      [] req.kind = "delete_transaction" /\ req.pc = "save" ->
            [db |-> Save(db, ReverseTransaction(req.account, req.found[1])),
             req |-> [req EXCEPT !.pc = "delete"]]
      [] req.kind = "delete_transaction" /\ req.pc = "delete" ->
            \* transaction.delete(): DELETE ... WHERE id = %s
            [db |-> [db EXCEPT !.transactions =
                        SelectSeq(@, LAMBDA t : t.id # req.id)],
             req |-> [req EXCEPT !.pc = "done", !.message = "Transaction deleted!"]]
      [] req.kind = "process_recurring" /\ req.pc = "start" ->
            \* for expense in due_today: the queryset is read once
            LET due == DueToday(recurring, now.day)
            IN  [db |-> db,
                 req |-> [req EXCEPT !.due = due,
                                     !.pc = IF due = <<>> THEN "done" ELSE "exists",
                                     !.message = "success"]]
      [] req.kind = "process_recurring" /\ req.pc = "exists" ->
            IF AlreadyProcessed(db.transactions, Head(req.due), now.day)
            THEN [db |-> db,
                  req |-> [req EXCEPT !.due = Tail(@),
                                      !.pc = IF Tail(req.due) = <<>> THEN "done"
                                             ELSE "exists"]]
            ELSE [db |-> db, req |-> [req EXCEPT !.pc = "get"]]
      [] req.kind = "process_recurring" /\ req.pc = "get" ->
            \* account = UserExpenseAccount.objects.get(user=user)
            [db |-> db, req |-> [req EXCEPT !.account = AccountOf(db), !.pc = "create"]]
      [] req.kind = "process_recurring" /\ req.pc = "create" ->
            [db |-> Create(db, "expense", Head(req.due).amount,
                           AutoPrefix \o Head(req.due).name, "Bills", now),
             req |-> [req EXCEPT !.pc = "save"]]
      [] req.kind = "process_recurring" /\ req.pc = "save" ->
            [db |-> Save(db, [req.account EXCEPT
                                !.current_balance = @ - Head(req.due).amount]),
             req |-> [req EXCEPT !.due = Tail(@),
                                 !.processed = @ + 1,
                                 !.pc = IF Tail(req.due) = <<>> THEN "done"
                                        ELSE "exists"]]

\* a request arrives
request_begin(kind, amount, id) ==
    /\ Len(inflight) < MaxInflight
    /\ inflight' = Append(inflight, NewRequest(kind, amount, id))
    /\ UNCHANGED <<total_amount, current_balance, target_amount, transactions,
                   recurring, next_id, today, response, other_account,
                   clock, invocations>>

\* the i-th request runs its next query
request_step(i) ==
    /\ inflight[i].pc # "done"
    /\ LET after == RequestStep(Database, inflight[i], Now)
       IN  /\ inflight' = [inflight EXCEPT ![i] = after.req]
           /\ total_amount' = after.db.total_amount
           /\ current_balance' = after.db.current_balance
           /\ target_amount' = after.db.target_amount
           /\ transactions' = after.db.transactions
           /\ next_id' = after.db.next_id
           /\ response' = IF after.req.pc = "done"
                          THEN Response(after.req.kind, after.req.message,
                                        after.req.processed)
                          ELSE response
    /\ UNCHANGED <<recurring, today, other_account, clock, invocations>>

\* what arrives: a deposit of 3, an expense of 2 or 3, the deletion of
\* transaction 1, the processing of the recurring payments
RequestInputs ==
    {[kind |-> "add_submit", amount |-> 3, id |-> 0],
     [kind |-> "expense_submit", amount |-> 2, id |-> 0],
     [kind |-> "expense_submit", amount |-> 3, id |-> 0],
     [kind |-> "delete_transaction", amount |-> 0, id |-> 1],
     [kind |-> "process_recurring", amount |-> 0, id |-> 0]}

\* the account after a deposit of 3 on 28 February, with one recurring
\* expense to deduct that day
InflightStart ==
    [total_amount |-> 3, current_balance |-> 3, target_amount |-> 0,
     transactions |-> <<Row(1, "addition", 3, AmountAddedText, "Other",
                            Moment(RecurringDays[2], TimesOfDay[1]))>>,
     next_id |-> 2]

InflightInit ==
    /\ total_amount = InflightStart.total_amount
    /\ current_balance = InflightStart.current_balance
    /\ target_amount = InflightStart.target_amount
    /\ transactions = InflightStart.transactions
    /\ next_id = InflightStart.next_id
    /\ recurring = <<[id |-> 1, user |-> User, name |-> NetText, amount |-> 1,
                      billing_date |-> 28, reminder_days |-> ReminderInitial,
                      is_active |-> TRUE, auto_deduct |-> TRUE]>>
    /\ today = RecurringDays[2]
    /\ response = Response("none", "", 0)
    /\ other_account = NoAccount
    /\ inflight = <<>>
    /\ invocations = <<>>
    /\ clock = TimesOfDay[1]

InflightNext ==
    \/ \E r \in RequestInputs : request_begin(r.kind, r.amount, r.id)
    \/ \E i \in 1..Len(inflight) : request_step(i)

InflightSpec == InflightInit /\ [][InflightNext]_vars

\* a request served alone, from its first query to its last
RECURSIVE RunAlone(_, _, _)
RunAlone(db, req, now) ==
    IF req.pc = "done" THEN db
    ELSE LET after == RequestStep(db, req, now)
         IN  RunAlone(after.db, after.req, now)

\* the requests served one after the other
RECURSIVE RunSerially(_, _, _)
RunSerially(db, reqs, now) ==
    IF reqs = <<>> THEN db
    ELSE RunSerially(RunAlone(db, NewRequest(Head(reqs).kind, Head(reqs).amount,
                                             Head(reqs).id), now),
                     Tail(reqs), now)

(***************************************************************************)
(* Properties                                                              *)
(***************************************************************************)
StoredExpenses == FilterExpenses(transactions)
Analysed == response.view = "analytics"

IsAuto(row) ==
    Len(row.description) >= Len(AutoPrefix)
    /\ SubSeq(row.description, 1, Len(AutoPrefix)) = AutoPrefix

\* C1: after any sequence of expense, add-amount, target, delete and
\* recurring-payment requests, current_balance equals total_amount minus the
\* sum of the amounts of the stored expense transactions.
C1_BalanceInvariant ==
    current_balance = total_amount - SumAmounts(StoredExpenses)

\* C1 witness: a transaction has just been deleted from an account that holds
\* an addition and an auto-deducted expense and has spent part of its funds.
C1_Witness ==
    /\ response.message = "Transaction deleted!"
    /\ \E i \in 1..Len(transactions) : transactions[i].transaction_type = "addition"
    /\ \E i \in 1..Len(transactions) : IsAuto(transactions[i])
    /\ current_balance # total_amount

\* C2 (as claimed): total_amount, current_balance and target_amount are never
\* negative.
C2_NonNegativeFigures ==
    total_amount >= 0 /\ current_balance >= 0 /\ target_amount >= 0

\* C3 (as claimed): every stored transaction has a strictly positive amount.
C3_PositiveAmounts ==
    \A i \in 1..Len(transactions) : transactions[i].amount > 0

\* C4 (as claimed): every stored transaction's category is one of the 8 tags.
C4_CategoryIsATag ==
    \A i \in 1..Len(transactions) : transactions[i].category \in CATEGORY_CHOICES

\* C5: a step that runs the engine (the analytics request) leaves the account
\* figures and the stored transactions as they were.
C5_EngineReadsOnly ==
    [][response'.view = "analytics" /\ response' # response =>
          UNCHANGED <<total_amount, current_balance, target_amount, transactions>>]_vars

\* C5 witness: the engine has run on an account with stored transactions and
\* a balance that differs from its total.
C5_Witness ==
    /\ Analysed
    /\ Len(transactions) >= 2
    /\ current_balance # total_amount

\* the i-th stored expense is among the 10 most recent ones
InRecentTen(i) == Len(StoredExpenses) - i < 10

\* the i-th stored expense exceeds twice the mean of all expense amounts
ExceedsTwiceMean(i) ==
    StoredExpenses[i].amount * Len(StoredExpenses) > 2 * SumAmounts(StoredExpenses)

AnomalyDates == {response.anomalies[j].date : j \in 1..Len(response.anomalies)}

RecentWindow == Take(OrderByCreatedDesc(StoredExpenses), 10)

C8_EmptyBelowSampleFloor ==
    Analysed /\ Len(StoredExpenses) < 5 =>
        response.anomalies = <<>> /\ ~response.raised

\* C8 witness: 5 transactions or more of which 4 are expenses, one of them
\* above twice their mean.
C8_Witness ==
    /\ Analysed
    /\ Len(transactions) >= 5
    /\ Len(StoredExpenses) = 4
    /\ \E i \in 1..4 : ExceedsTwiceMean(i)

\* C9: the engine never divides by zero, and expense_percentage is 0 whenever
\* total_amount <= 0.
C9_NoDivisionByZero ==
    Analysed =>
        /\ ~response.raised
        /\ total_amount <= 0 =>
              ExpensePercentage(response.expense_data, account) = Whole(0)

\* C9 witness: the engine has run on no transaction at all, with total_amount
\* and target_amount 0.
C9_Witness ==
    /\ Analysed
    /\ transactions = <<>>
    /\ total_amount = 0
    /\ target_amount = 0

\* C10: the per-category sums and the per-week sums each add up to
\* total_expenses, which is the sum of the expense amounts; expense_count is
\* the number of expense transactions; without expenses the sums, the count
\* and the mean are zero.
C10_RollupsPartitionTheTotal ==
    Analysed =>
        LET d == response.expense_data
        IN  /\ SumValues(d.by_category) = d.total_expenses
            /\ SumValues(d.by_week) = d.total_expenses
            /\ d.total_expenses = SumAmounts(StoredExpenses)
            /\ d.expense_count = Len(StoredExpenses)
            /\ StoredExpenses = <<>> =>
                  /\ d.total_expenses = 0 /\ d.expense_count = 0
                  /\ d.last_7_days = 0 /\ d.last_30_days = 0
                  /\ d.by_category = <<>> /\ d.by_week = <<>>
                  /\ d.average_expense.num = 0

\* C10 witness: expenses of two categories over two weeks, several of them
\* in one category, next to an addition.
C10_Witness ==
    /\ Analysed
    /\ Len(response.expense_data.by_category) >= 2
    /\ Len(response.expense_data.by_week) >= 2
    /\ response.expense_data.expense_count > Len(response.expense_data.by_category)
    /\ Len(transactions) > Len(StoredExpenses)

(***************************************************************************)
(* The bundle of the last analysis                                         *)
(***************************************************************************)
Bundle == response.ai_insights
Texts(items) == {items[i].text : i \in 1..Len(items)}

\* the account's spend rate is above, at or below n percent
RateAbove(n) ==
    total_amount > 0
    /\ 100 * response.expense_data.total_expenses > n * total_amount
RateIs(n) ==
    total_amount > 0
    /\ 100 * response.expense_data.total_expenses = n * total_amount

HighOutcome ==
    /\ "You've spent {:.1f}% of your total funds!" \in Texts(Bundle.warnings)
    /\ "Try to reduce daily expenses by 15-20% to stay within budget"
          \in Texts(Bundle.tips)
MediumOutcome ==
    /\ "Your spending is at {:.1f}% - watch your expenses" \in Texts(Bundle.warnings)
    /\ "Consider cutting non-essential expenses by 10%" \in Texts(Bundle.tips)
PraiseOutcome ==
    "Good job! You're spending {:.1f}% - keep it controlled" \in Texts(Bundle.praise)
SpendRateTexts ==
    {"You've spent {:.1f}% of your total funds!",
     "Try to reduce daily expenses by 15-20% to stay within budget",
     "Your spending is at {:.1f}% - watch your expenses",
     "Consider cutting non-essential expenses by 10%",
     "Good job! You're spending {:.1f}% - keep it controlled"}
NoSpendRateOutcome ==
    SpendRateTexts \cap (Texts(Bundle.warnings) \cup Texts(Bundle.tips)
                         \cup Texts(Bundle.praise)) = {}

\* C11 (as claimed): for every expense_percentage of 0 and above the
\* spend-rate rule contributes exactly one of its three outcomes.
C11_OneOutcomeForEveryRate ==
    Analysed /\ (total_amount <= 0 \/ response.expense_data.total_expenses >= 0) =>
        \/ HighOutcome /\ ~MediumOutcome /\ ~PraiseOutcome
        \/ MediumOutcome /\ ~HighOutcome /\ ~PraiseOutcome
        \/ PraiseOutcome /\ ~HighOutcome /\ ~MediumOutcome

\* C11 (amended): above 70 the rule gives the high-severity warning and the
\* reduce-15-20% tip; above 50 and up to 70 the medium warning and the
\* reduce-10% tip; above 0 and up to 50 one praise; at 0 (no expenses, or
\* total_amount <= 0) it gives nothing.  Its items come first in their lists.
C11_SpendRateBands ==
    Analysed =>
        /\ RateAbove(70) =>
              /\ HighOutcome /\ ~MediumOutcome /\ ~PraiseOutcome
              /\ Bundle.warnings[1].text = "You've spent {:.1f}% of your total funds!"
              /\ Bundle.tips[1].text =
                    "Try to reduce daily expenses by 15-20% to stay within budget"
        /\ RateAbove(50) /\ ~RateAbove(70) =>
              /\ MediumOutcome /\ ~HighOutcome /\ ~PraiseOutcome
              /\ Bundle.warnings[1].text =
                    "Your spending is at {:.1f}% - watch your expenses"
              /\ Bundle.tips[1].text = "Consider cutting non-essential expenses by 10%"
        /\ RateAbove(0) /\ ~RateAbove(50) =>
              /\ PraiseOutcome /\ ~HighOutcome /\ ~MediumOutcome
              /\ Bundle.praise[1].text =
                    "Good job! You're spending {:.1f}% - keep it controlled"
        /\ ~RateAbove(0) => NoSpendRateOutcome

\* C11 witness: the engine has run on an account whose expenses are exactly
\* 70% of its total, and the medium warning was given.
C11_Witness ==
    /\ Analysed
    /\ RateIs(70)
    /\ MediumOutcome


\* the number of items of a list that satisfy a test
Count(items, Test(_)) == Cardinality({i \in 1..Len(items) : Test(items[i])})

\* the share of a by_category entry in the total is above 30%
ShareAbove30(entry) ==
    100 * entry.value > 30 * response.expense_data.total_expenses

\* the text of the tip the per-category rule gives for a category
CategoryTipText(category) ==
    CASE category = "Food" ->
            "Try meal planning and cooking at home to save 20-30% on food"
      [] category = "Shopping" ->
            "Use the 30-day rule: wait 30 days before buying non-essentials"
      [] category = "Entertainment" ->
            "Look for free events or share subscription costs with family"
      [] category = "Transport" ->
            "Consider carpooling or public transport for daily commute"
      [] OTHER -> "Review your {} expenses and identify savings opportunities"

CategoryTipTexts ==
    {CategoryTipText(c) : c \in {"Food", "Shopping", "Entertainment", "Transport", ""}}

IsCategoryWarning(item) == item.text = "{} is {:.0f}% of your total spending"
IsCategoryTip(item) == item.text \in CategoryTipTexts

TableMultiplier(category) ==
    CASE category = "Food" -> 7
      [] category = "Shopping" -> 6
      [] category = "Entertainment" -> 7
      [] category = "Transport" -> 8
      [] OTHER -> 8

\* n is a whole number nearest to amount * tenths / 10
NearestWhole(n, amount, tenths) ==
    /\ 2 * (10 * n - amount * tenths) <= 10
    /\ 2 * (amount * tenths - 10 * n) <= 10

\* C13 (as claimed): the budget suggestion of an overspending category is
\* the bare integer string of amount x multiplier.
C13_BudgetIsBareInteger ==
    Analysed =>
        \A i \in 1..Len(Bundle.budget_suggestions) :
            LET b == Bundle.budget_suggestions[i]
                amount == Lookup(response.expense_data.by_category, b.key)
            IN  /\ b.value.prefix = ""
                /\ b.value.suffix = ""
                /\ NearestWhole(b.value.amount, amount, TableMultiplier(b.key))

\* C13 (amended): the budget suggestion of an overspending category is the
\* currency sign, then amount x multiplier as a whole number without
\* decimals, then " (reduce by N%)" with N = 100 - 100 x multiplier; the
\* multiplier is 0.7 for Food and Entertainment, 0.6 for Shopping and 0.8 for
\* Transport and every other category, recognized or not; no category string
\* makes the engine fail.
C13_BudgetText ==
    Analysed =>
        /\ ~response.raised
        /\ \A i \in 1..Len(Bundle.budget_suggestions) :
              LET b == Bundle.budget_suggestions[i]
                  amount == Lookup(response.expense_data.by_category, b.key)
                  m == TableMultiplier(b.key)
              IN  /\ b.value.prefix = "Rs"
                  /\ NearestWhole(b.value.amount, amount, m)
                  /\ b.value.suffix =
                        (CASE m = 7 -> " (reduce by 30%)"
                           [] m = 6 -> " (reduce by 40%)"
                           [] m = 8 -> " (reduce by 20%)")

\* C13 witness: a suggestion for a category outside the table next to one
\* for Food whose 0.7 share is an exact half.
C13_Witness ==
    /\ Analysed
    /\ "Gifts" \in Keys(Bundle.budget_suggestions)
    /\ "Food" \in Keys(Bundle.budget_suggestions)
    /\ Lookup(response.expense_data.by_category, "Food") % 10 = 5


\* the lists of the last analysis before the return statement cuts them
Collected == response.collected

TargetTexts ==
    {"Congratulations! You've achieved your savings goal of {}!",
     "You're {:.0f}% to your goal! Just {:.0f} more!",
     "Halfway to your {} goal - keep going!",
     "Save {:.0f} more to reach your target"}
IsTargetItem(item) == item.text \in TargetTexts

\* current_balance is at least n percent of target_amount
ProgressAtLeast(n) == 100 * current_balance >= n * target_amount

GenericTipTexts ==
    <<"Follow the 50/30/20 rule: 50% needs, 30% wants, 20% savings",
      "Review your subscriptions - cancel unused ones",
      "Set up automatic savings transfers on payday",
      "Make a shopping list and stick to it to avoid impulse buys",
      "Use cash for daily expenses to better control spending">>
IsGenericTip(item) == \E g \in 1..Len(GenericTipTexts) : item.text = GenericTipTexts[g]

\* the tips that rules 1 to 6 collected, and the generic tips appended
GenericCount == Count(Collected.tips, IsGenericTip)
RuleTipCount == Len(Collected.tips) - GenericCount

\* C15: after rules 1 to 6 collected n tips, exactly max(0, 4 - n) generic
\* tips are appended: the first ones of the fixed list, in listed order, at
\* the end of the tips; the returned tips list has at least 4 entries.
C15_BackfillToFour ==
    Analysed /\ ~response.raised =>
        /\ GenericCount = (IF RuleTipCount >= 4 THEN 0 ELSE 4 - RuleTipCount)
        /\ \A g \in 1..GenericCount :
              Collected.tips[RuleTipCount + g].text = GenericTipTexts[g]
        /\ Len(Bundle.tips) >= 4

\* C15 witness: rules 1 to 6 collected 3 tips and one generic tip follows.
C15_Witness ==
    /\ Analysed
    /\ RuleTipCount = 3
    /\ Len(Collected.tips) = 4
    /\ Collected.tips[4].text = GenericTipTexts[1]


\* kept is the first min(n, Len(all)) elements of all, in their order
IsFirstOf(kept, all, n) ==
    /\ Len(kept) = (IF Len(all) < n THEN Len(all) ELSE n)
    /\ \A i \in 1..Len(kept) : kept[i] = all[i]

\* C16: the returned tips, warnings and praise are the first min(5, n),
\* min(5, n) and min(3, n) elements of the collected lists, in their order.
C16_TruncationKeepsTheFirst ==
    Analysed /\ ~response.raised =>
        /\ IsFirstOf(Bundle.tips, Collected.tips, 5)
        /\ IsFirstOf(Bundle.warnings, Collected.warnings, 5)
        /\ IsFirstOf(Bundle.praise, Collected.praise, 3)

\* C16 witness: 7 tips and 6 warnings were collected and 5 of each returned.
C16_Witness ==
    /\ Analysed
    /\ Len(Collected.tips) = 7
    /\ Len(Collected.warnings) = 6
    /\ Len(Bundle.tips) = 5
    /\ Len(Bundle.warnings) = 5


\* the rule that contributes an item, by its text
RuleOf(item) ==
    CASE item.text \in SpendRateTexts -> 1
      [] IsCategoryWarning(item) \/ IsCategoryTip(item) -> 2
      [] item.text = "Small expenses add up! Track daily coffee/snacks - can save 2000+/month"
            -> 3
      [] item.text = "At current rate, you'll spend {:.0f} this month" -> 4
      [] item.text \in {"Found {} unusually high expenses - review them!",
                        "Check your high-value transactions to identify one-time vs recurring expenses"}
            -> 5
      [] IsTargetItem(item) -> 6
      [] IsGenericTip(item) -> 7

InRuleOrder(items) ==
    \A i, j \in 1..Len(items) : i < j => RuleOf(items[i]) <= RuleOf(items[j])

RulesIn(items) == {RuleOf(items[i]) : i \in 1..Len(items)}

\* C17: in each of tips, warnings and praise, collected and returned, every
\* item of a lower-numbered rule precedes every item of a higher-numbered
\* rule (1 spend rate, 2 per category, 3 small expenses, 4 weekly trend,
\* 5 anomaly, 6 target progress, 7 generic tips).
C17_RuleOrder ==
    Analysed =>
        /\ InRuleOrder(Collected.tips) /\ InRuleOrder(Bundle.tips)
        /\ InRuleOrder(Collected.warnings) /\ InRuleOrder(Bundle.warnings)
        /\ InRuleOrder(Collected.praise) /\ InRuleOrder(Bundle.praise)

\* C17 witness: rules 1, 2, 4 and 5 gave warnings and rules 1, 2, 3, 5 and 6
\* gave tips.
C17_Witness ==
    /\ Analysed
    /\ RulesIn(Collected.warnings) = {1, 2, 4, 5}
    /\ RulesIn(Collected.tips) = {1, 2, 3, 5, 6}


\* the engine has run on an account without transactions and with figures of
\* 0 or more
AnalysedEmpty ==
    /\ Analysed
    /\ transactions = <<>>
    /\ total_amount >= 0 /\ current_balance >= 0 /\ target_amount >= 0

\* the summary text is there: the engine's, with its closing sentence
SummaryIsThere ==
    ~Bundle.summary.unavailable /\ Bundle.summary.closing # ""

\* C18 (as claimed): for an empty transaction set the bundle has a non-empty
\* summary and at least 4 generic tips.
C18_FourGenericTipsWhenEmpty ==
    AnalysedEmpty =>
        SummaryIsThere /\ Count(Bundle.tips, IsGenericTip) >= 4

\* C18 (amended): for an empty transaction set the bundle has a non-empty
\* summary and exactly 4 tips: the first 4 generic tips, or, when
\* target_amount > 0 and current_balance is below half of it, the target tip
\* followed by the first 3 generic tips.
C18_FourTipsWhenEmpty ==
    AnalysedEmpty =>
        /\ SummaryIsThere
        /\ Len(Bundle.tips) = 4
        /\ IF target_amount > 0 /\ ~ProgressAtLeast(50)
           THEN /\ Bundle.tips[1].text = "Save {:.0f} more to reach your target"
                /\ \A g \in 1..3 : Bundle.tips[1 + g].text = GenericTipTexts[g]
           ELSE \A g \in 1..4 : Bundle.tips[g].text = GenericTipTexts[g]

\* C18 witness: no transactions, a target above twice the balance, and the
\* target tip ahead of 3 generic tips.
C18_Witness ==
    /\ AnalysedEmpty
    /\ target_amount > 2 * current_balance
    /\ Count(Bundle.tips, IsGenericTip) = 3
    /\ Bundle.tips[1].value = target_amount - current_balance


\* two invocations were given the same transactions, the same account
\* figures and the same 'now'
SameArguments(a, b) ==
    /\ a.transactions = b.transactions
    /\ a.account = b.account
    /\ a.now = b.now

Returns(frame) == frame.pc = "done"

\* C19: of two successive invocations of the engine with identical
\* transactions, identical account figures and the same 'now', the second
\* returns the bundle the first returned, whatever the first has popped from
\* its list of generic tips: every invocation starts its loop with the five
\* generic tips, and returns what the engine, as a function of its
\* arguments alone, gives for them.
C19_SameInputsSameBundle ==
    /\ \A i \in 1..(Len(invocations) - 1) :
          /\ Returns(invocations[i]) /\ Returns(invocations[i + 1])
          /\ SameArguments(invocations[i], invocations[i + 1])
          => invocations[i + 1].returned = invocations[i].returned
    /\ \A i \in 1..Len(invocations) :
          /\ Len(invocations[i].tips) + Len(invocations[i].default_tips)
               = Len(invocations[i].items.tips) + Len(default_tips)
          /\ Returns(invocations[i])
             => invocations[i].returned =
                   <<analyze_expenses_with_ai(invocations[i].transactions,
                                              invocations[i].account,
                                              invocations[i].now).insights>>

\* C19 witness: the engine has returned twice on the same stored expenses,
\* figures and 'now'; the first invocation popped two generic tips and left
\* three, and so did the second.
C19_Witness ==
    /\ Len(invocations) >= 2
    /\ Returns(invocations[1]) /\ Returns(invocations[2])
    /\ SameArguments(invocations[1], invocations[2])
    /\ invocations[1].transactions # <<>>
    /\ Len(invocations[1].default_tips) = 3
    /\ Len(invocations[2].default_tips) = 3
    /\ Len(invocations[2].returned[1].tips) = 4


\* C20: when the engine fails on malformed input, such as an amount that is
\* not a number, the analytics request does not fail: it is served, with the
\* degraded bundle (placeholder summary, every list and mapping empty)
AnalyticsRequested ==
    Analysed \/ (response.view = "error" /\ response.message = "analytics")

EngineFails ==
    analyze_expenses_with_ai(AccountTransactions, account, Now).raised

C20_EngineFailureIsServed ==
    AnalyticsRequested /\ EngineFails =>
        /\ Analysed
        /\ response.ai_insights = FallbackInsights

\* a dict as the mapping it is, a list as the items it holds
Items(d) == {d[i] : i \in 1..Len(d)}
SameItems(a, b) == Len(a) = Len(b) /\ Items(a) = Items(b)

EngineCalled == response.view = "engine"

\* the engine's locals and bundle for the stored expenses in the order p
Rerun(p) == analyze_expenses_with_ai(InOrder(transactions, p), account, response.now)

\* prepare_expense_data gives the same figures and the same mappings
SameAggregates(a, b) ==
    /\ a.total_expenses = b.total_expenses
    /\ a.expense_count = b.expense_count
    /\ a.average_expense = b.average_expense
    /\ a.last_7_days = b.last_7_days
    /\ a.last_30_days = b.last_30_days
    /\ SameItems(a.by_category, b.by_category)
    /\ SameItems(a.by_week, b.by_week)

\* C21 as stated: whatever the order of the transactions, the aggregator
\* returns the same figures and mappings and the rule evaluator the same
\* bundle (its lists equal item by item, its dicts equal as mappings).
C21_OrderIndependentBundle ==
    EngineCalled =>
        \A p \in Orders(Len(transactions)) :
            LET run == Rerun(p)
            IN  /\ SameAggregates(run.expense_data, response.expense_data)
                /\ run.insights.summary = Bundle.summary
                /\ run.insights.tips = Bundle.tips
                /\ run.insights.warnings = Bundle.warnings
                /\ run.insights.praise = Bundle.praise
                /\ run.insights.overspending = Bundle.overspending
                /\ run.insights.anomalies = Bundle.anomalies
                /\ SameItems(run.insights.budget_suggestions,
                             Bundle.budget_suggestions)
                /\ SameItems(run.insights.category_breakdown,
                             Bundle.category_breakdown)

\* the categories of rows, each once, in the order in which they first occur
RECURSIVE FirstSeen(_)
FirstSeen(rows) ==
    IF rows = <<>> THEN <<>>
    ELSE LET before == FirstSeen(SubSeq(rows, 1, Len(rows) - 1))
             category == rows[Len(rows)].category
         IN  IF category \in Items(before) THEN before
             ELSE Append(before, category)

\* the lists a and b hold the same items and agree position by position,
\* except where they hold category items
SameButCategoryItems(a, b, IsCategoryItem(_)) ==
    /\ SameItems(a, b)
    /\ \A i \in 1..Len(a) :
          IF IsCategoryItem(b[i]) THEN IsCategoryItem(a[i]) ELSE a[i] = b[i]

\* the categories the warnings of rule 2 name, as they stand in the list
WarnedCategories(warnings) ==
    LET named == SelectSeq(warnings, IsCategoryWarning)
    IN  [i \in 1..Len(named) |-> named[i].category]

\* the categories of overspending are those of the response, standing in the
\* order in which they first occur in rows, and so do their warnings and
\* their tips; elsewhere the lists are those of the response
CategoryItemsAsFirstSeen(run, rows) ==
    LET overspending ==
            SelectSeq(FirstSeen(FilterExpenses(rows)),
                      LAMBDA c : c \in Items(Bundle.overspending))
    IN  /\ run.insights.overspending = overspending
        /\ WarnedCategories(run.collected.warnings) = overspending
        /\ LET advised == SelectSeq(run.collected.tips, IsCategoryTip)
           IN  /\ Len(advised) = Len(overspending)
               /\ \A i \in 1..Len(advised) :
                     /\ advised[i].text = CategoryTipText(overspending[i])
                     /\ advised[i].category \in {"", overspending[i]}
        /\ SameButCategoryItems(run.collected.warnings, Collected.warnings,
                                IsCategoryWarning)
        /\ SameButCategoryItems(run.collected.tips, Collected.tips,
                                IsCategoryTip)
        /\ run.insights.warnings = Take(run.collected.warnings, 5)
        /\ run.insights.tips = Take(run.collected.tips, 5)

\* C21, amended: whatever the order of the transactions, the aggregator
\* returns the same figures and mappings, and the rule evaluator the same
\* summary, praise, anomalies, budget suggestions and breakdown; the lists
\* it collects as tips and warnings (the bundle holds the first five of
\* each) and the list overspending are the same position by position,
\* except that the entries rule 2 makes for the categories above 30% stand,
\* among themselves, in the order in which their categories first occur in
\* the input.
C21_OrderIndependentContent ==
    EngineCalled =>
        \A p \in Orders(Len(transactions)) :
            LET run == Rerun(p)
            IN  /\ SameAggregates(run.expense_data, response.expense_data)
                /\ run.insights.summary = Bundle.summary
                /\ run.insights.praise = Bundle.praise
                /\ run.insights.anomalies = Bundle.anomalies
                /\ SameItems(run.insights.budget_suggestions,
                             Bundle.budget_suggestions)
                /\ SameItems(run.insights.category_breakdown,
                             Bundle.category_breakdown)
                /\ CategoryItemsAsFirstSeen(run, InOrder(transactions, p))

\* C21 witness: the engine ran, newest first, on five expenses of three
\* categories spread over two weeks, two of them anomalies and two of the
\* categories overspending; a tip of rule 1 stands before the category tips
\* and a tip of rule 5 after them.
C21_Witness ==
    /\ EngineCalled
    /\ Len(transactions) = 5
    /\ Len(response.expense_data.by_category) = 3
    /\ Len(response.expense_data.by_week) = 2
    /\ response.expense_data.by_category[1].key = transactions[5].category
    /\ response.expense_data.by_category[1].key # transactions[1].category
    /\ Len(Bundle.anomalies) = 2
    /\ Len(Bundle.overspending) = 2
    /\ Len(Collected.tips) >= 4
    /\ ~IsCategoryTip(Collected.tips[1])
    /\ IsCategoryTip(Collected.tips[2])
    /\ IsCategoryTip(Collected.tips[3])
    /\ ~IsCategoryTip(Collected.tips[4])

IsTrendWarning(item) == item.text = "At current rate, you'll spend {:.0f} this month"

\* n is the whole number nearest to (last_7_days / 7) * 30
NearestProjection(n, last_7_days) ==
    /\ 2 * (7 * n - 30 * last_7_days) <= 7
    /\ 2 * (30 * last_7_days - 7 * n) <= 7

\* C22: the weekly-trend rule appends exactly one warning if and only if
\* last_7_days > 0 and expense_count > 7, its value being
\* (last_7_days / 7) * 30 rounded to a whole number; otherwise it appends
\* nothing.
C22_WeeklyTrendWarning ==
    Analysed /\ ~response.raised =>
        LET data == response.expense_data
            trend == SelectSeq(Collected.warnings, IsTrendWarning)
        IN  IF data.last_7_days > 0 /\ data.expense_count > 7
            THEN /\ Len(trend) = 1
                 /\ NearestProjection(trend[1].value, data.last_7_days)
            ELSE trend = <<>>

\* C22 witness: eight expenses, three of them within the last seven days,
\* and the warning projects 13 for the month.
C22_Witness ==
    /\ Analysed
    /\ response.now = Now
    /\ response.expense_data.expense_count = 8
    /\ response.expense_data.last_7_days = 3
    /\ \E i \in 1..Len(Bundle.warnings) :
          IsTrendWarning(Bundle.warnings[i]) /\ Bundle.warnings[i].value = 13

\* the stored transaction with a primary key, in a table
StoredIds(rows) == {rows[i].id : i \in 1..Len(rows)}
RowOf(rows, id) == rows[CHOOSE i \in 1..Len(rows) : rows[i].id = id]

\* C23: a transaction is immutable once created: no request changes the
\* amount, kind, category, timestamp (or any other field) or the owning
\* account of a stored transaction; a stored transaction is only read, or
\* deleted by the delete request, one at a time.
C23_TransactionsImmutable ==
    [][/\ \A id \in StoredIds(transactions) \cap StoredIds(transactions') :
             RowOf(transactions', id) = RowOf(transactions, id)
       /\ StoredIds(transactions') \cap StoredIds(other_account.transactions) = {}
       /\ StoredIds(transactions) \ StoredIds(transactions') # {} =>
             /\ response'.message = "Transaction deleted!"
             /\ Cardinality(StoredIds(transactions) \ StoredIds(transactions')) = 1
             /\ Len(transactions') = Len(transactions) - 1]_vars

\* C23 witness: two transactions are stored, one of them created by a
\* request that came after the other was stored.
C23_Witness ==
    /\ Len(transactions) = 2
    /\ transactions[1].transaction_type = "addition"
    /\ transactions[2].transaction_type = "expense"
    /\ response.message = "Expense added"

\* the 'Auto: <name>' expense transactions created today
AutoRowsToday(name) ==
    SelectSeq(transactions,
              LAMBDA t : /\ t.transaction_type = "expense"
                         /\ t.created_at = today
                         /\ t.description = AutoPrefix \o name)

\* every recurring expense that is due for deduction today has its own
\* 'Auto: <name>' transaction of today, and the balance has gone down by the
\* amount of every stored transaction, once each
OneDeductionEach ==
    LET due == DueToday(recurring, today)
    IN  /\ \A i \in 1..Len(due) :
              Len(AutoRowsToday(due[i].name)) =
                  Len(SelectSeq(due, LAMBDA e : e.name = due[i].name))
        /\ current_balance = total_amount - SumAmounts(transactions)

\* C24: however often process_recurring_payments is invoked on one day,
\* each active auto-deduct recurring expense whose billing_date is that day
\* of the month has exactly one 'Auto: <name>' expense transaction and one
\* deduction of its amount, also when several recurring expenses have equal
\* names or names that contain one another.
C24_OneDeductionPerDueExpense ==
    [][response'.view = "process_recurring" /\ today' = today
          => OneDeductionEach']_vars

\* every active auto-deduct recurring expense with a billing_date in 1..31
\* for which is_due_today() holds has its 'Auto: <name>' transaction of today
DueTodayIsDeducted ==
    \A i \in 1..Len(recurring) :
        LET e == recurring[i]
        IN  /\ e.user = User
            /\ e.is_active /\ e.auto_deduct
            /\ e.billing_date \in 1..31
            /\ is_due_today(e, today)
            => AutoRowsToday(e.name) # <<>>

\* C25: on every day on which is_due_today() is true for an active
\* auto-deduct recurring expense (the due day being the last day of a month
\* shorter than billing_date), a call of process_recurring_payments creates
\* its expense transaction: 'due today' of the alerts and the selection of
\* the auto-deduct agree.
C25_DueTodayIsAutoDeducted ==
    [][response'.view = "process_recurring" /\ today' = today
          => DueTodayIsDeducted']_vars

\* what the stored transactions gain in a step
Created == SubSeq(transactions', Len(transactions) + 1, Len(transactions'))

\* C26: an expense submission whose amount, after any OCR substitution,
\* exceeds current_balance is rejected: no transaction is created and the
\* three account figures are unchanged; an accepted expense of amount a
\* lowers current_balance by exactly a, creates exactly one expense
\* transaction of amount a and leaves total_amount and target_amount
\* unchanged.
C26_ExpenseWithinBalance ==
    [][\A f \in ExpenseInputs :
          LET a == IF f.ocr_amount # 0 THEN f.ocr_amount ELSE f.expense_amount
          IN  home_expense_submit(f.expense_amount, f.category, f.description,
                                  f.ocr_amount)
              => /\ total_amount' = total_amount
                 /\ target_amount' = target_amount
                 /\ SubSeq(transactions', 1, Len(transactions)) = transactions
                 /\ IF a > current_balance
                    THEN /\ response'.message = "Insufficient balance!"
                         /\ transactions' = transactions
                         /\ current_balance' = current_balance
                    ELSE /\ response'.message = "Expense added"
                         /\ current_balance' = current_balance - a
                         /\ Len(Created) = 1
                         /\ Created[1].transaction_type = "expense"
                         /\ Created[1].amount = a]_vars

\* C26 witness: with a balance of 1 left after an accepted expense of the
\* OCR amount 2, the same submission has been rejected.
C26_Witness ==
    /\ response.message = "Insufficient balance!"
    /\ current_balance = 1
    /\ total_amount = 3
    /\ \E i \in 1..Len(transactions) :
          transactions[i].transaction_type = "expense" /\ transactions[i].amount = 2

(***************************************************************************)
(* C27: when two requests of the same user that change the account are     *)
(* served at once, the figures and the stored transactions they leave are  *)
(* those of the two requests served one after the other, in one of the two *)
(* orders.                                                                 *)
(***************************************************************************)
AllServed == inflight # <<>> /\ \A i \in 1..Len(inflight) : inflight[i].pc = "done"

WithoutIds(rows) == [i \in 1..Len(rows) |-> [rows[i] EXCEPT !.id = 0]]

SameStored(a, b) ==
    /\ Len(a) = Len(b)
    /\ \A i \in 1..Len(a) :
          Cardinality({j \in 1..Len(a) : WithoutIds(a)[j] = WithoutIds(a)[i]})
            = Cardinality({j \in 1..Len(b) : WithoutIds(b)[j] = WithoutIds(a)[i]})

AsServedSerially(p) ==
    LET serial == RunSerially(InflightStart, InOrder(inflight, p), Now)
    IN  /\ current_balance = serial.current_balance
        /\ total_amount = serial.total_amount
        /\ SameStored(transactions, serial.transactions)

C27_SerialEquivalent ==
    AllServed => \E p \in Orders(Len(inflight)) : AsServedSerially(p)

(***************************************************************************)
(* C28: delete_recurring_expense clears is_active of a record of the user  *)
(* and keeps the record; a record with is_active false stays as it is in   *)
(* every later state, is listed by neither recurring_expenses nor          *)
(* get_recurring_alerts, and process_recurring_payments deducts nothing    *)
(* for it; a request naming a record of another user, or an id that is not *)
(* stored, is answered 'not found' and changes nothing: the other user's   *)
(* record stays active.                                                    *)
(***************************************************************************)
IsActiveId(rows, id) ==
    \E i \in 1..Len(rows) :
        rows[i].id = id /\ rows[i].user = User /\ rows[i].is_active

OwnedByUser(id) == id \in 1..Len(recurring) /\ recurring[id].user = User

Deactivates ==
    \A id \in 1..(MaxDueRecurring + 1) :
        delete_recurring_expense(id) /\ OwnedByUser(id)
        => /\ response'.message = "removed successfully!"
           /\ recurring' = [recurring EXCEPT ![id].is_active = FALSE]

StaysInactive ==
    \A i \in 1..Len(recurring) :
        ~recurring[i].is_active
        => i <= Len(recurring') /\ recurring'[i] = recurring[i]

ListsOnlyActive ==
    /\ response'.view \in {"recurring_expenses", "recurring_alerts"}
       => \A j \in 1..Len(response'.listed) :
             IsActiveId(recurring', response'.listed[j].id)
    /\ response'.view = "recurring_expenses"
       => /\ \A j \in 1..Len(response'.due_today) :
                IsActiveId(recurring', response'.due_today[j].id)
          /\ \A j \in 1..Len(response'.upcoming) :
                IsActiveId(recurring', response'.upcoming[j].id)

DeductsOnlyActive ==
    response'.view = "process_recurring" /\ today' = today
    => /\ SubSeq(transactions', 1, Len(transactions)) = transactions
       /\ \A k \in (Len(transactions) + 1)..Len(transactions') :
             \E i \in 1..Len(recurring) :
                /\ recurring[i].user = User
                /\ recurring[i].is_active /\ recurring[i].auto_deduct
                /\ recurring[i].billing_date = DayOfMonth(today)
                /\ transactions'[k].description = AutoPrefix \o recurring[i].name
                /\ transactions'[k].amount = recurring[i].amount
       /\ Len(transactions') - Len(transactions)
            <= Cardinality({i \in 1..Len(recurring) :
                              recurring[i].user = User /\ recurring[i].is_active})
       /\ (\A i \in 1..Len(recurring) :
              recurring[i].user = User => ~recurring[i].is_active)
            => current_balance' = current_balance

\* neither a record of another user nor an id that is not stored is found
NotFoundChangesNothing ==
    /\ \A id \in 1..(MaxDueRecurring + 1) :
          delete_recurring_expense(id) /\ ~OwnedByUser(id)
          => response'.message = "Recurring expense not found."
    /\ response'.message = "Recurring expense not found." /\ today' = today
       => UNCHANGED <<total_amount, current_balance, target_amount, transactions,
                      recurring, next_id, other_account>>

\* no request of the user changes a record of another user
OthersUntouched ==
    \A i \in 1..Len(recurring) :
        recurring[i].user # User => recurring'[i] = recurring[i]

C28_DeactivatedStaysOut ==
    [][/\ Deactivates
       /\ StaysInactive
       /\ ListsOnlyActive
       /\ DeductsOnlyActive
       /\ NotFoundChangesNothing
       /\ OthersUntouched]_vars

\* every id a request can name is stored; the user has deactivated a record
\* of their own, and their last request, a removal answered 'not found',
\* named a record of the other user, which is still active
C28_Witness ==
    /\ response.message = "Recurring expense not found."
    /\ Len(recurring) = MaxDueRecurring + 1
    /\ \E i \in 1..Len(recurring) :
          recurring[i].user = User /\ ~recurring[i].is_active
    /\ \E i \in 1..Len(recurring) :
          /\ recurring[i].user = OtherUser /\ recurring[i].is_active
          /\ recurring[i].auto_deduct
          /\ recurring[i].billing_date = DayOfMonth(today)
    /\ \A i \in 1..Len(recurring) : AutoRowsToday(recurring[i].name) = <<>>

(***************************************************************************)
(* C29: a delete-transaction request of a user changes nothing of any      *)
(* other account; when the id is not among the user's own transactions,    *)
(* whether it is another user's or nobody's, the answer is 'Transaction    *)
(* not found!' and no balance, total or transaction of any account changes.*)
(***************************************************************************)
AllAccountsUnchanged ==
    UNCHANGED <<total_amount, current_balance, target_amount, transactions,
                other_account>>

C29_DeleteIsIsolated ==
    [][/\ response'.view = "transcation" => other_account' = other_account
       /\ response'.message = "Transaction not found!" => AllAccountsUnchanged
       /\ \A id \in 1..MaxId :
             transcation_delete(id) /\ id \notin StoredIds(transactions)
             => /\ response'.message = "Transaction not found!"
                /\ AllAccountsUnchanged]_vars

\* every id a request can name is stored, both users own some, and the
\* user's last request, a deletion, was answered 'not found': it named a
\* transaction of the other user
C29_Witness ==
    /\ response.message = "Transaction not found!"
    /\ transactions # <<>>
    /\ other_account.transactions # <<>>
    /\ StoredIds(transactions) \cup StoredIds(other_account.transactions)
         = 1..MaxId

(***************************************************************************)
(* C30: in every bundle of the rule evaluator, overspending names no       *)
(* category twice and at most 3 categories, the keys of budget_suggestions *)
(* are the categories of overspending, and every category of overspending  *)
(* is a key of category_breakdown.                                         *)
(***************************************************************************)
Elements(seq) == {seq[i] : i \in 1..Len(seq)}

C30_OverspendingShape ==
    response.view = "analytics" /\ ~response.raised
    => /\ Cardinality(Elements(Bundle.overspending)) = Len(Bundle.overspending)
       /\ Len(Bundle.overspending) <= 3
       /\ Keys(Bundle.budget_suggestions) = Elements(Bundle.overspending)
       /\ Elements(Bundle.overspending) \subseteq Keys(Bundle.category_breakdown)

====
